---------------------------- MODULE Spec2Model ----------------------------
(***************************************************************************)
(* M5Stack Core2 CAN monitor (jujax/m5can).                                *)
(*                                                                         *)
(* Two subsystems of the firmware are modelled here:                       *)
(*   - the interrupt-driven receive path (canISR, receiveCanMessages and   *)
(*     the part of loop() that calls it), with the interrupt handler       *)
(*     interleaved at statement granularity with the main loop;            *)
(*   - the SD-card session logger (toggleSDLogging, logCanFrame,           *)
(*     logImuData, rotateLogFiles and the open/close helpers).             *)
(***************************************************************************)
EXTENDS Integers, Sequences, FiniteSets, TLC

(***************************************************************************)
(* Bounds of the model.                                                    *)
(***************************************************************************)
\* Number of frames the bus delivers in one run.
MaxFrames == 6

\* Receive buffers of the controller: frames it can hold unread.
MaxQueue == 3

\* Payload lengths the bus delivers (a CAN frame carries 0..8 bytes).
FrameLens == {0, 3, 8}

\* Rotation threshold of the log files.  The firmware's value is 10485760
\* bytes; the model counts a file's size in lines (the header line and every
\* row count one unit each) and scales the threshold accordingly.
MAX_LOG_FILE_SIZE == 3

\* Number of sessions (calls of generateSessionId) in one run.
MaxSessions == 2

\* Number of passes of loop() in one run of the touch-screen scenarios.
MaxTouchPasses == 5

\* Number of passes of loop() (or of the error loop) in one run.
MaxPasses == 3

\* The clock advances in steps of TimeStep milliseconds, MaxTicks times.
MaxTicks == 1

TimeStep == 6000

\* Values of esp_random() & 0xFFFFFF that the model draws from, as printed
\* by "%06X".
SessionIds == {"00A1F3", "7C0E55"}

(***************************************************************************)
(* Program constants.                                                      *)
(***************************************************************************)
\* CanMessage rxLog[5]
RX_LOG_SIZE == 5

\* uint8_t data[8]
CAN_MAX_LEN == 8

\* if (millis() - lastFlush > 5000)
FLUSH_INTERVAL_MS == 5000

\* #define BRIGHTNESS_DEFAULT 100
BRIGHTNESS_DEFAULT == 100

\* #define TIMEOUT_OFF_MS 15000
TIMEOUT_OFF_MS == 15000

\* if (sendingEnabled && (now - lastTxTime >= 1000))
TX_PERIOD_MS == 1000

\* if (screenOn && (now - lastDisplayUpdate >= 100))
DISPLAY_INTERVAL_MS == 100

\* #define IMU_LOG_INTERVAL_MS 100
IMU_LOG_INTERVAL_MS == 100

\* while (canResult != CAN_OK && canInitAttempts < 5)
CAN_INIT_ATTEMPTS == 5

\* const unsigned long CAN_FRAME_ID = 0x7DF
CAN_FRAME_ID == 2015

\* const uint8_t CAN_FRAME_LEN = 8
CAN_FRAME_LEN == 8

\* const uint8_t CAN_FRAME_DATA[8] = {0x02, 0x01, 0x0D, 0x55, ...}
CAN_FRAME_DATA == <<2, 1, 13, 85, 85, 85, 85, 85>>

LOG_FILENAME_PREFIX == "/can_log_"

IMU_FILENAME_PREFIX == "/imu_log_"

LOG_FILENAME_EXT == ".csv"

\* logFile.println("timestamp_ms,type,id,length,data_hex")
CAN_CSV_HEADER == "timestamp_ms,type,id,length,data_hex"

\* imuLogFile.println("timestamp_ms,accel_x,accel_y,accel_z,gyro_x,gyro_y,gyro_z")
IMU_CSV_HEADER == "timestamp_ms,accel_x,accel_y,accel_z,gyro_x,gyro_y,gyro_z"

(***************************************************************************)
(* State.                                                                  *)
(***************************************************************************)
VARIABLES
    pc,              \* position of the main loop inside loop()
    canMsgReceived,  \* volatile bool canMsgReceived
    canRxQueue,      \* frames held unread by the controller, oldest first
    rxLog,           \* CanMessage rxLog[5], indexed 0..4
    rxLogIndex,      \* int rxLogIndex
    rxCount,         \* unsigned long rxCount
    arrived,         \* history: number of frames the bus has delivered
    drained,         \* history: frames read by readMsgBuf, in order
    call             \* history: the current call of receiveCanMessages

VARIABLES
    now,               \* millis()
    sd,                \* the files on the SD card, by name
    sdInitialized,     \* bool sdInitialized
    sdLoggingEnabled,  \* bool sdLoggingEnabled
    logFile,           \* File logFile
    logFileSize,       \* unsigned long logFileSize
    imuLogFile,        \* File imuLogFile
    imuLogFileSize,    \* unsigned long imuLogFileSize
    lastImuLogTime,    \* unsigned long lastImuLogTime
    currentSessionId,  \* String currentSessionId
    lastFlush,         \* static unsigned long lastFlush (logCanFrame)
    lastImuFlush,      \* static unsigned long lastImuFlush (logImuData)
    sessions,          \* history: number of calls of generateSessionId
    lastOp             \* history: what the last logger call did

VARIABLES
    txCount,             \* unsigned long txCount
    lastTxTime,          \* unsigned long lastTxTime
    sendingEnabled,      \* bool sendingEnabled
    lastTx,              \* CanMessage lastTx
    screenOn,            \* bool screenOn
    currentBrightness,   \* uint8_t currentBrightness
    lastActivityTime,    \* unsigned long lastActivityTime
    powerSaveMode,       \* bool powerSaveMode
    displayInitialized,  \* bool displayInitialized
    lastDisplayUpdate,   \* unsigned long lastDisplayUpdate
    lastBatPercent,      \* int lastBatPercent
    lastCharging,        \* bool lastCharging
    lastTxCount,         \* unsigned long lastTxCount
    lastRxCount,         \* unsigned long lastRxCount
    buttonsDrawn,        \* bool buttonsDrawn
    lastSendingState,    \* bool lastSendingState
    lastSDLoggingState,  \* bool lastSDLoggingState
    lastSDState,         \* static bool lastSDState (updateHeader)
    lastSDInit,          \* static bool lastSDInit (updateHeader)
    lastFastCharge,      \* static bool lastFastCharge (updateHeader)
    canInitAttempts,     \* int canInitAttempts (setup)
    canResult,           \* byte canResult (setup)
    tick,                \* history: what the current pass of loop() has done
    twin                 \* a second run of the firmware on the same inputs

\* Variables of the frame-catalogue build (src/src/main.cpp) that the build
\* with logging and power management does not have.
VARIABLES
    currentFrameIndex,   \* int currentFrameIndex
    debugSerial,         \* bool debugSerial
    touchStart,          \* static unsigned long touchStart (pressed branch)
    touchStartReleased,  \* static unsigned long touchStart (released branch)
    longPressHandled,    \* static bool longPressHandled
    lastFrameIndex,      \* static int lastFrameIndex (updateTxSection)
    lastDebugState       \* bool lastDebugState

rxVars == <<pc, canMsgReceived, canRxQueue, rxLog, rxLogIndex, rxCount,
            arrived, drained, call>>

logVars == <<sd, sdInitialized, sdLoggingEnabled, logFile, logFileSize,
             imuLogFile, imuLogFileSize, lastImuLogTime, currentSessionId,
             lastFlush, lastImuFlush, sessions, lastOp>>

txVars == <<txCount, lastTxTime, sendingEnabled, lastTx>>

powerVars == <<screenOn, currentBrightness, lastActivityTime, powerSaveMode,
               displayInitialized>>

displayVars == <<lastDisplayUpdate, lastBatPercent, lastCharging, lastTxCount,
                 lastRxCount, buttonsDrawn, lastSendingState,
                 lastSDLoggingState, lastSDState, lastSDInit, lastFastCharge>>

setupVars == <<canInitAttempts, canResult>>

catalogueVars == <<currentFrameIndex, debugSerial, touchStart,
                   touchStartReleased, longPressHandled, lastFrameIndex,
                   lastDebugState>>

\* What the receive path and the logger taken alone leave as it is.
loopVars == <<txVars, powerVars, displayVars, setupVars, catalogueVars, tick,
              twin>>

vars == <<rxVars, now, logVars, loopVars>>

(***************************************************************************)
(* Frames and the ring buffer.                                             *)
(***************************************************************************)
\* The k-th frame on the bus: identifier k, `len' payload bytes.
BusFrame(k, len) == [id |-> k, len |-> len, data |-> [i \in 1..len |-> k % 256]]

\* memset(rxLog, 0, sizeof(rxLog))
EmptySlot == [id |-> 0, len |-> 0, data |-> [i \in 1..CAN_MAX_LEN |-> 0]]

\* Mutant: the write index wraps one slot late.
NextRxLogIndex_WrapLate(i) == (i + 1) % (RX_LOG_SIZE + 1)

\* Mutant: the write index wraps one slot early.
NextRxLogIndex_WrapEarly(i) == (i + 1) % (RX_LOG_SIZE - 1)

\* rxLogIndex = (rxLogIndex + 1) % 5
NextRxLogIndex(i) == (i + 1) % RX_LOG_SIZE

\* Mutant: the slot's length is not overwritten.
StoreFrame_KeepLen(log, i, f) ==
    [log EXCEPT ![i] = [id   |-> f.id,
                        len  |-> @.len,
                        data |-> [b \in 1..CAN_MAX_LEN |->
                                    IF b <= f.len THEN f.data[b] ELSE @.data[b]]]]

\* rxLog[rxLogIndex].id = rxId; .len = len; memcpy(.data, rxBuf, len):
\* only the first len bytes of the slot's data are overwritten.
StoreFrame(log, i, f) ==
    [log EXCEPT ![i] = [id   |-> f.id,
                        len  |-> f.len,
                        data |-> [b \in 1..CAN_MAX_LEN |->
                                    IF b <= f.len THEN f.data[b] ELSE @.data[b]]]]

\* CAN.checkReceive() == CAN_MSGAVAIL
MsgAvail(q) == q # <<>>

\* lastOp: the logger function called last, whether it returned at its first
\* test, whether it went on to open the two files, and what the two opens
\* returned.
NoOp == [op |-> "none", skipped |-> FALSE, opens |-> FALSE,
         canOk |-> FALSE, imuOk |-> FALSE]

\* call: the latest call of receiveCanMessages: the controller's queue, the
\* counter, the write index and the number of arrived frames when it began,
\* how often it has cleared the flag, and the counter when it did.
NoCall == [active |-> FALSE, queue0 |-> <<>>, rxCount0 |-> 0, index0 |-> 0,
           arrived0 |-> 0, clears |-> 0, rxCountAtClear |-> 0]

(***************************************************************************)
(* The SD card and the File handles.                                       *)
(***************************************************************************)
\* A File that is not open (a default-constructed File, or one that was
\* closed, or the result of a failed SD.open): it converts to false.
ClosedFile == [open |-> FALSE, name |-> <<>>]

\* A name with no file on the card.
NoFile == [exists |-> FALSE, lines |-> <<>>, synced |-> 0]

\* String(LOG_FILENAME_PREFIX) + currentSessionId + String(LOG_FILENAME_EXT)
createLogFilename(sid) == <<LOG_FILENAME_PREFIX, sid, LOG_FILENAME_EXT>>

\* String(IMU_FILENAME_PREFIX) + currentSessionId + String(LOG_FILENAME_EXT)
createImuLogFilename(sid) == <<IMU_FILENAME_PREFIX, sid, LOG_FILENAME_EXT>>

FileNames ==
    {createLogFilename(s) : s \in SessionIds \cup {""}}
        \cup {createImuLogFilename(s) : s \in SessionIds \cup {""}}

\* File::size(), counted in lines.
FileSize(card, h) == IF h.open THEN Len(card[h.name].lines) ELSE 0

\* SD.open(filename, FILE_WRITE): FILE_WRITE is "w" on this platform, the
\* file is created, or truncated when it exists.
SdOpenWrite(card, name) ==
    [card EXCEPT ![name] = [exists |-> TRUE, lines |-> <<>>, synced |-> 0]]

\* File::print / println / printf of one line on an open File.
FilePrintln(card, h, line) ==
    IF h.open
      THEN [card EXCEPT ![h.name].lines = Append(@, line)]
      ELSE card

\* File::flush(): what was written so far reaches the card.
FileFlush(card, h) ==
    IF h.open
      THEN [card EXCEPT ![h.name].synced = Len(card[h.name].lines)]
      ELSE card

\* File::close() writes out what is buffered.
FileClose(card, h) == FileFlush(card, h)

\* The outcomes of the card operations of one call that opens the two files:
\* for each file, whether SD.begin() with a card present succeeds (asked only
\* while sdInitialized is false) and whether SD.open succeeds.  A call that
\* opens nothing has the single outcome in which nothing is asked.
OpenOutcomes(opens, initialized) ==
    IF ~opens
      THEN {[canCard |-> TRUE, canOpen |-> TRUE, imuCard |-> TRUE, imuOpen |-> TRUE]}
      ELSE [canCard : IF initialized THEN {TRUE} ELSE BOOLEAN, canOpen : BOOLEAN,
            imuCard : IF initialized THEN {TRUE} ELSE BOOLEAN, imuOpen : BOOLEAN]

\* The values generateSessionId() can return in a call; a call that does not
\* reach it draws nothing.
DrawnSessionIds(opens, current) == IF opens THEN SessionIds ELSE {current}

(***************************************************************************)
(* The logger.  Its functions are written as operators from the logger's   *)
(* state L (a record of the variables below) to its state after the call.  *)
(***************************************************************************)
LoggerState ==
    [sd               |-> sd,
     sdInitialized    |-> sdInitialized,
     sdLoggingEnabled |-> sdLoggingEnabled,
     logFile          |-> logFile,
     logFileSize      |-> logFileSize,
     imuLogFile       |-> imuLogFile,
     imuLogFileSize   |-> imuLogFileSize,
     lastImuLogTime   |-> lastImuLogTime,
     currentSessionId |-> currentSessionId,
     lastFlush        |-> lastFlush,
     lastImuFlush     |-> lastImuFlush]

SetLoggerState(L) ==
    /\ sd' = L.sd
    /\ sdInitialized' = L.sdInitialized
    /\ sdLoggingEnabled' = L.sdLoggingEnabled
    /\ logFile' = L.logFile
    /\ logFileSize' = L.logFileSize
    /\ imuLogFile' = L.imuLogFile
    /\ imuLogFileSize' = L.imuLogFileSize
    /\ lastImuLogTime' = L.lastImuLogTime
    /\ currentSessionId' = L.currentSessionId
    /\ lastFlush' = L.lastFlush
    /\ lastImuFlush' = L.lastImuFlush

\* Sequencing: the state e a statement leaves is computed, then the next
\* statement f runs on it.
Bind(e, f(_)) == CHOOSE r \in {f(v) : v \in {e}} : TRUE

\* bool initSD(): cardOk is SD.begin() && SD.cardType() != CARD_NONE.
initSD(L, cardOk) ==
    IF L.sdInitialized THEN [st |-> L, ok |-> TRUE]
    ELSE IF ~cardOk THEN [st |-> L, ok |-> FALSE]
    ELSE [st |-> [L EXCEPT !.sdInitialized = TRUE], ok |-> TRUE]

\* void closeLogFile()
closeLogFile(L) ==
    IF L.logFile.open
      THEN [L EXCEPT !.sd = FileClose(L.sd, L.logFile), !.logFile = ClosedFile]
      ELSE L

\* void closeImuLogFile()
closeImuLogFile(L) ==
    IF L.imuLogFile.open
      THEN [L EXCEPT !.sd = FileClose(L.sd, L.imuLogFile), !.imuLogFile = ClosedFile]
      ELSE L

\* bool openLogFile()
openLogFile(L, cardOk, openOk) ==
    LET i == initSD(L, cardOk) IN
    IF ~i.ok THEN [st |-> i.st, ok |-> FALSE]
    ELSE
      LET L1   == closeLogFile(i.st)
          name == createLogFilename(L1.currentSessionId)
          h    == [open |-> TRUE, name |-> name]
      IN IF ~openOk
           THEN [st |-> [L1 EXCEPT !.logFile = ClosedFile], ok |-> FALSE]
           ELSE [st |-> [L1 EXCEPT
                           !.logFile = h,
                           !.logFileSize = 0,
                           !.sd = FilePrintln(SdOpenWrite(L1.sd, name), h, CAN_CSV_HEADER)],
                 ok |-> TRUE]

\* bool openImuLogFile()
openImuLogFile(L, cardOk, openOk) ==
    LET i == initSD(L, cardOk) IN
    IF ~i.ok THEN [st |-> i.st, ok |-> FALSE]
    ELSE
      LET L1   == closeImuLogFile(i.st)
          name == createImuLogFilename(L1.currentSessionId)
          h    == [open |-> TRUE, name |-> name]
      IN IF ~openOk
           THEN [st |-> [L1 EXCEPT !.imuLogFile = ClosedFile], ok |-> FALSE]
           ELSE [st |-> [L1 EXCEPT
                           !.imuLogFile = h,
                           !.imuLogFileSize = 0,
                           !.sd = FilePrintln(SdOpenWrite(L1.sd, name), h, IMU_CSV_HEADER)],
                 ok |-> TRUE]

\* Mutant: a file that opened is left open when the other one failed.
closeOpened_Nothing(L, canOk, imuOk) == L

\* The tail of rotateLogFiles and of the enabling branch of toggleSDLogging:
\* if (canOk) closeLogFile(); if (imuOk) closeImuLogFile();
closeOpened(L, canOk, imuOk) ==
    LET L1 == IF canOk THEN closeLogFile(L) ELSE L
    IN  IF imuOk THEN closeImuLogFile(L1) ELSE L1

\* bool canOk = openLogFile(); bool imuOk = openImuLogFile();
openBoth(L, e) ==
    LET can == openLogFile(L, e.canCard, e.canOpen)
        imu == openImuLogFile(can.st, e.imuCard, e.imuOpen)
    IN  [st |-> imu.st, canOk |-> can.ok, imuOk |-> imu.ok]

\* closeLogFile(); closeImuLogFile(); currentSessionId = generateSessionId();
\* sid is the value generateSessionId() returns.
closeForRotation(L, sid) ==
    [closeImuLogFile(closeLogFile(L)) EXCEPT !.currentSessionId = sid]

\* Mutant: only the bus log is reopened under the new session identifier; the
\* motion log stays open under the old one.
rotateLogFiles_CanOnly(L, sid, e) ==
    LET can == openLogFile([closeLogFile(L) EXCEPT !.currentSessionId = sid],
                           e.canCard, e.canOpen)
    IN  IF ~can.ok
          THEN [st |-> closeImuLogFile(can.st), ok |-> FALSE]
          ELSE [st |-> can.st, ok |-> TRUE]

\* bool rotateLogFiles()
rotateLogFiles(L, sid, e) ==
    Bind(openBoth(closeForRotation(L, sid), e), LAMBDA o :
    IF ~o.canOk \/ ~o.imuOk
      THEN [st |-> closeOpened(o.st, o.canOk, o.imuOk), ok |-> FALSE]
      ELSE [st |-> o.st, ok |-> TRUE])

\* Mutant: only the size of the bus log is tested.
rotationDue_CanOnly(L) == L.logFileSize > MAX_LOG_FILE_SIZE

\* if (logFileSize > MAX_LOG_FILE_SIZE || imuLogFileSize > MAX_LOG_FILE_SIZE)
rotationDue(L) ==
    L.logFileSize > MAX_LOG_FILE_SIZE \/ L.imuLogFileSize > MAX_LOG_FILE_SIZE

\* The digits print and printf produce, by value.
HexDigits == <<"0", "1", "2", "3", "4", "5", "6", "7", "8", "9",
               "A", "B", "C", "D", "E", "F">>

\* printf("%lu", n) and printf("%d", n) of a number that is not negative.
RECURSIVE PrintDec(_)
PrintDec(n) ==
    IF n < 10 THEN HexDigits[n + 1]
              ELSE PrintDec(n \div 10) \o HexDigits[(n % 10) + 1]

\* Print::print(n, HEX): the digits of n in base 16, upper case, as many as
\* n needs.
RECURSIVE PrintHex(_)
PrintHex(n) ==
    IF n < 16 THEN HexDigits[n + 1]
              ELSE PrintHex(n \div 16) \o HexDigits[(n % 16) + 1]

\* The number of digits PrintHex(n) prints.
RECURSIVE HexWidth(_)
HexWidth(n) == IF n < 16 THEN 1 ELSE 1 + HexWidth(n \div 16)

\* The zeros printf puts before a number to fill a field of `width' digits.
RECURSIVE ZeroFill(_)
ZeroFill(k) == IF k <= 0 THEN "" ELSE "0" \o ZeroFill(k - 1)

\* printf("%03lX", n)
PrintHex03(n) == ZeroFill(3 - HexWidth(n)) \o PrintHex(n)

\* Mutant: a byte below 0x10 is printed as one digit.
printData_NoPad(s, data, len, i) ==
    s \o PrintHex(data[i + 1]) \o (IF i < len - 1 THEN " " ELSE "")

\* One pass of the for loop of logCanFrame, on the text s printed so far:
\* if (data[i] < 0x10) print("0"); print(data[i], HEX); if (i < len - 1)
\* print(" ").
printData(s, data, len, i) ==
    s \o (IF data[i + 1] < 16 THEN "0" ELSE "") \o PrintHex(data[i + 1])
      \o (IF i < len - 1 THEN " " ELSE "")

\* for (int i = 0; i < len; i++) { ... }
RECURSIVE printDataLoop(_, _, _, _)
printDataLoop(s, data, len, i) ==
    IF i < len THEN printDataLoop(printData(s, data, len, i), data, len, i + 1)
               ELSE s

\* The line logCanFrame prints at time t: printf("%lu,%s,0x%03lX,%d,", ...)
\* and the payload bytes.
canRowText(t, type, id, len, data) ==
    printDataLoop(PrintDec(t) \o "," \o type \o ",0x" \o PrintHex03(id)
                    \o "," \o PrintDec(len) \o ",", data, len, 0)

\* The row logCanFrame prints at time t: its arguments and the text of the
\* line.
CanRow(t, type, id, len, data) ==
    [type |-> type, id |-> id, len |-> len, data |-> [i \in 1..len |-> data[i]],
     ts |-> t, text |-> canRowText(t, type, id, len, data)]

\* The row logImuData prints (timestamp and sample values left out).
ImuRow == [type |-> "IMU"]

\* Mutant: logCanFrame has no early return.
logCanFrameSkips_Never(L) == FALSE

\* if (!sdLoggingEnabled || !logFile) return;
logCanFrameSkips(L) == ~L.sdLoggingEnabled \/ ~L.logFile.open

\* if (!sdLoggingEnabled || !imuLogFile) return;
logImuDataSkips(L) == ~L.sdLoggingEnabled \/ ~L.imuLogFile.open

\* Mutant: a failed rotation is ignored and the row is printed all the same.
logCanFrame_IgnoreFailure(L, type, id, len, data, t, sid, e) ==
    IF logCanFrameSkips(L) THEN L
    ELSE
      Bind(IF rotationDue(L) THEN rotateLogFiles(L, sid, e)
                             ELSE [st |-> L, ok |-> TRUE], LAMBDA r :
      Bind([r.st EXCEPT !.sd = FilePrintln(@, r.st.logFile,
                                           CanRow(t, type, id, len, data))],
           LAMBDA L1 :
      Bind([L1 EXCEPT !.logFileSize = FileSize(L1.sd, L1.logFile)], LAMBDA L2 :
      IF t - L2.lastFlush > FLUSH_INTERVAL_MS
        THEN [L2 EXCEPT !.sd = FileFlush(@, L2.logFile), !.lastFlush = t]
        ELSE L2)))

\* void logCanFrame(type, id, len, data), called at time t.
logCanFrame(L, type, id, len, data, t, sid, e) ==
    IF logCanFrameSkips(L) THEN L
    ELSE
      Bind(IF rotationDue(L) THEN rotateLogFiles(L, sid, e)
                             ELSE [st |-> L, ok |-> TRUE], LAMBDA r :
      IF ~r.ok THEN [r.st EXCEPT !.sdLoggingEnabled = FALSE]
      ELSE
        Bind([r.st EXCEPT !.sd = FilePrintln(@, r.st.logFile,
                                             CanRow(t, type, id, len, data))],
             LAMBDA L1 :
        Bind([L1 EXCEPT !.logFileSize = FileSize(L1.sd, L1.logFile)], LAMBDA L2 :
        IF t - L2.lastFlush > FLUSH_INTERVAL_MS
          THEN [L2 EXCEPT !.sd = FileFlush(@, L2.logFile), !.lastFlush = t]
          ELSE L2)))

\* void logImuData(accX, ..., gyroZ), called at time t.
logImuData(L, t, sid, e) ==
    IF logImuDataSkips(L) THEN L
    ELSE
      Bind(IF rotationDue(L) THEN rotateLogFiles(L, sid, e)
                             ELSE [st |-> L, ok |-> TRUE], LAMBDA r :
      IF ~r.ok THEN [r.st EXCEPT !.sdLoggingEnabled = FALSE]
      ELSE
        Bind([r.st EXCEPT !.sd = FilePrintln(@, r.st.imuLogFile, ImuRow)],
             LAMBDA L1 :
        Bind([L1 EXCEPT !.imuLogFileSize = FileSize(L1.sd, L1.imuLogFile)],
             LAMBDA L2 :
        IF t - L2.lastImuFlush > FLUSH_INTERVAL_MS
          THEN [L2 EXCEPT !.sd = FileFlush(@, L2.imuLogFile), !.lastImuFlush = t]
          ELSE L2)))

\* Mutant: logging is enabled as soon as the bus log has opened.
toggleSDLogging_CanOnly(L, t, sid, e) ==
    IF ~L.sdLoggingEnabled
      THEN LET o == openBoth([L EXCEPT !.currentSessionId = sid], e)
           IN  IF o.canOk
                 THEN [o.st EXCEPT !.sdLoggingEnabled = TRUE, !.lastImuLogTime = t]
                 ELSE closeOpened(o.st, o.canOk, o.imuOk)
      ELSE [closeImuLogFile(closeLogFile(L)) EXCEPT !.sdLoggingEnabled = FALSE]

\* void toggleSDLogging(), called at time t.
toggleSDLogging(L, t, sid, e) ==
    IF ~L.sdLoggingEnabled
      THEN LET o == openBoth([L EXCEPT !.currentSessionId = sid], e)
           IN  IF o.canOk /\ o.imuOk
                 THEN [o.st EXCEPT !.sdLoggingEnabled = TRUE, !.lastImuLogTime = t]
                 ELSE closeOpened(o.st, o.canOk, o.imuOk)
      ELSE [closeImuLogFile(closeLogFile(L)) EXCEPT !.sdLoggingEnabled = FALSE]

(***************************************************************************)
(* The whole program state.  The functions of the firmware are written as  *)
(* operators from the program's state P (a record of the variables) to its *)
(* state after the call; the logger's operators above apply to P as they   *)
(* apply to the logger's part of it.                                       *)
(***************************************************************************)
\* sendingEnabled ? ">" : "||" in the TX section, and the state the
\* PLAY/PAUSE button is drawn in.
PlayText(sending) == IF sending THEN "play" ELSE "pause"

\* The panel after M5.Lcd.fillScreen(COLOR_BG): no play indicator in the TX
\* section, no PLAY/PAUSE button, no RX counter and no row in the message
\* list.
BlankLcd == [indicator |-> "none", buttonA |-> "none", rxCount |-> -1,
             rxList |-> <<>>]

\* tick: the pass of loop() in progress (or the last one): its number, the
\* calls of CAN.sendMsgBuf it made (the frame and
\* whether the controller returned CAN_OK), the calls of logCanFrame("TX"),
\* whether the periodic path fired, whether updateDisplay ran, whether it
\* took its first-time branch, what it drew and the rows of the message
\* list it drew, who switched the screen off,
\* the buttons and touches the pass saw (and the zone of a long-press
\* action it ran); and, kept from pass to pass, the
\* time of the latest press or touch, whether the latest call of
\* updateDisplay took its first-time branch, the time of the latest send
\* made by a press of Button B (0 before the first), the time since which
\* the screen has been touched without a release (0 when the latest pass
\* saw no touch), the number of long-press actions run during that touch,
\* the number of the pass in which Button A last switched sending on (0
\* before the first),
\* the values that call of updateDisplay had to show; and lcd, what the
\* panel shows (see BlankLcd).
NoTick == [n |-> 0, periodic |-> FALSE, sends |-> <<>>, txLogged |-> 0,
           refreshed |-> FALSE, full |-> FALSE, redrawn |-> {}, listed |-> <<>>,
           offBy |-> "none", pressed |-> {}, activity |-> 0,
           lastFull |-> FALSE, manual |-> 0, touchSince |-> 0, fired |-> 0,
           enabledIn |-> 0, lcd |-> BlankLcd,
           shown |-> [bat |-> -1, chg |-> FALSE, txCount |-> 0, rxCount |-> 0,
                      sendingEnabled |-> FALSE, sdLoggingEnabled |-> FALSE,
                      sdInitialized |-> FALSE]]

ProgramState ==
    [canMsgReceived     |-> canMsgReceived,
     canRxQueue         |-> canRxQueue,
     rxLog              |-> rxLog,
     rxLogIndex         |-> rxLogIndex,
     rxCount            |-> rxCount,
     txCount            |-> txCount,
     lastTxTime         |-> lastTxTime,
     sendingEnabled     |-> sendingEnabled,
     lastTx             |-> lastTx,
     screenOn           |-> screenOn,
     currentBrightness  |-> currentBrightness,
     lastActivityTime   |-> lastActivityTime,
     powerSaveMode      |-> powerSaveMode,
     displayInitialized |-> displayInitialized,
     lastDisplayUpdate  |-> lastDisplayUpdate,
     lastBatPercent     |-> lastBatPercent,
     lastCharging       |-> lastCharging,
     lastTxCount        |-> lastTxCount,
     lastRxCount        |-> lastRxCount,
     buttonsDrawn       |-> buttonsDrawn,
     lastSendingState   |-> lastSendingState,
     lastSDLoggingState |-> lastSDLoggingState,
     lastSDState        |-> lastSDState,
     lastSDInit         |-> lastSDInit,
     lastFastCharge     |-> lastFastCharge,
     sd                 |-> sd,
     sdInitialized      |-> sdInitialized,
     sdLoggingEnabled   |-> sdLoggingEnabled,
     logFile            |-> logFile,
     logFileSize        |-> logFileSize,
     imuLogFile         |-> imuLogFile,
     imuLogFileSize     |-> imuLogFileSize,
     lastImuLogTime     |-> lastImuLogTime,
     currentSessionId   |-> currentSessionId,
     lastFlush          |-> lastFlush,
     lastImuFlush       |-> lastImuFlush,
     tick               |-> tick]

\* The state the program starts in: the initializers of its globals and
\* statics, and an SD card with no log file on it.
BootState ==
    [canMsgReceived     |-> FALSE,
     canRxQueue         |-> <<>>,
     rxLog              |-> [i \in 0..(RX_LOG_SIZE - 1) |-> EmptySlot],
     rxLogIndex         |-> 0,
     rxCount            |-> 0,
     txCount            |-> 0,
     lastTxTime         |-> 0,
     sendingEnabled     |-> FALSE,
     lastTx             |-> EmptySlot,
     screenOn           |-> TRUE,
     currentBrightness  |-> BRIGHTNESS_DEFAULT,
     lastActivityTime   |-> 0,
     powerSaveMode      |-> FALSE,
     displayInitialized |-> FALSE,
     lastDisplayUpdate  |-> 0,
     lastBatPercent     |-> -1,
     lastCharging       |-> FALSE,
     lastTxCount        |-> 0,
     lastRxCount        |-> 0,
     buttonsDrawn       |-> FALSE,
     lastSendingState   |-> TRUE,
     lastSDLoggingState |-> FALSE,
     lastSDState        |-> FALSE,
     lastSDInit         |-> FALSE,
     lastFastCharge     |-> FALSE,
     sd                 |-> [n \in FileNames |-> NoFile],
     sdInitialized      |-> FALSE,
     sdLoggingEnabled   |-> FALSE,
     logFile            |-> ClosedFile,
     logFileSize        |-> 0,
     imuLogFile         |-> ClosedFile,
     imuLogFileSize     |-> 0,
     lastImuLogTime     |-> 0,
     currentSessionId   |-> "",
     lastFlush          |-> 0,
     lastImuFlush       |-> 0,
     tick               |-> NoTick]

SetProgramState(P) ==
    /\ canMsgReceived' = P.canMsgReceived
    /\ canRxQueue' = P.canRxQueue
    /\ rxLog' = P.rxLog
    /\ rxLogIndex' = P.rxLogIndex
    /\ rxCount' = P.rxCount
    /\ txCount' = P.txCount
    /\ lastTxTime' = P.lastTxTime
    /\ sendingEnabled' = P.sendingEnabled
    /\ lastTx' = P.lastTx
    /\ screenOn' = P.screenOn
    /\ currentBrightness' = P.currentBrightness
    /\ lastActivityTime' = P.lastActivityTime
    /\ powerSaveMode' = P.powerSaveMode
    /\ displayInitialized' = P.displayInitialized
    /\ lastDisplayUpdate' = P.lastDisplayUpdate
    /\ lastBatPercent' = P.lastBatPercent
    /\ lastCharging' = P.lastCharging
    /\ lastTxCount' = P.lastTxCount
    /\ lastRxCount' = P.lastRxCount
    /\ buttonsDrawn' = P.buttonsDrawn
    /\ lastSendingState' = P.lastSendingState
    /\ lastSDLoggingState' = P.lastSDLoggingState
    /\ lastSDState' = P.lastSDState
    /\ lastSDInit' = P.lastSDInit
    /\ lastFastCharge' = P.lastFastCharge
    /\ sd' = P.sd
    /\ sdInitialized' = P.sdInitialized
    /\ sdLoggingEnabled' = P.sdLoggingEnabled
    /\ logFile' = P.logFile
    /\ logFileSize' = P.logFileSize
    /\ imuLogFile' = P.imuLogFile
    /\ imuLogFileSize' = P.imuLogFileSize
    /\ lastImuLogTime' = P.lastImuLogTime
    /\ currentSessionId' = P.currentSessionId
    /\ lastFlush' = P.lastFlush
    /\ lastImuFlush' = P.lastImuFlush
    /\ tick' = P.tick

ProgramStateIs(P) ==
    /\ canMsgReceived = P.canMsgReceived
    /\ canRxQueue = P.canRxQueue
    /\ rxLog = P.rxLog
    /\ rxLogIndex = P.rxLogIndex
    /\ rxCount = P.rxCount
    /\ txCount = P.txCount
    /\ lastTxTime = P.lastTxTime
    /\ sendingEnabled = P.sendingEnabled
    /\ lastTx = P.lastTx
    /\ screenOn = P.screenOn
    /\ currentBrightness = P.currentBrightness
    /\ lastActivityTime = P.lastActivityTime
    /\ powerSaveMode = P.powerSaveMode
    /\ displayInitialized = P.displayInitialized
    /\ lastDisplayUpdate = P.lastDisplayUpdate
    /\ lastBatPercent = P.lastBatPercent
    /\ lastCharging = P.lastCharging
    /\ lastTxCount = P.lastTxCount
    /\ lastRxCount = P.lastRxCount
    /\ buttonsDrawn = P.buttonsDrawn
    /\ lastSendingState = P.lastSendingState
    /\ lastSDLoggingState = P.lastSDLoggingState
    /\ lastSDState = P.lastSDState
    /\ lastSDInit = P.lastSDInit
    /\ lastFastCharge = P.lastFastCharge
    /\ sd = P.sd
    /\ sdInitialized = P.sdInitialized
    /\ sdLoggingEnabled = P.sdLoggingEnabled
    /\ logFile = P.logFile
    /\ logFileSize = P.logFileSize
    /\ imuLogFile = P.imuLogFile
    /\ imuLogFileSize = P.imuLogFileSize
    /\ lastImuLogTime = P.lastImuLogTime
    /\ currentSessionId = P.currentSessionId
    /\ lastFlush = P.lastFlush
    /\ lastImuFlush = P.lastImuFlush
    /\ tick = P.tick

(***************************************************************************)
(* Power management.  millis() is read as the time t at which the pass of  *)
(* loop() began: the pass itself is taken to last no time, time advances   *)
(* in delay().                                                             *)
(***************************************************************************)
\* void setScreenOn(bool on)
setScreenOn(P, on) ==
    IF on
      THEN [P EXCEPT !.screenOn = TRUE, !.currentBrightness = BRIGHTNESS_DEFAULT]
      ELSE [P EXCEPT !.screenOn = FALSE, !.currentBrightness = 0]

\* Mutant: waking the screen leaves the activity timer as it is.
wakeScreen_KeepTimer(P, t) ==
    IF ~P.screenOn
      THEN [setScreenOn(P, TRUE) EXCEPT !.powerSaveMode = FALSE,
                                        !.displayInitialized = FALSE]
      ELSE P

\* void wakeScreen()
wakeScreen(P, t) ==
    Bind([P EXCEPT !.lastActivityTime = t], LAMBDA P1 :
    IF ~P1.screenOn
      THEN [setScreenOn(P1, TRUE) EXCEPT !.powerSaveMode = FALSE,
                                         !.displayInitialized = FALSE]
      ELSE P1)

\* Mutant: the screen goes off as soon as the idle time reaches the timeout.
updatePowerSaving_AtTimeout(P, t) ==
    IF P.screenOn /\ t - P.lastActivityTime >= TIMEOUT_OFF_MS /\ ~P.powerSaveMode
      THEN [setScreenOn(P, FALSE) EXCEPT !.powerSaveMode = TRUE,
                                         !.tick.offBy = "idle"]
      ELSE P

\* Mutant: the screen goes off after twice the timeout.
updatePowerSaving_Late(P, t) ==
    IF P.screenOn /\ t - P.lastActivityTime > 2 * TIMEOUT_OFF_MS /\ ~P.powerSaveMode
      THEN [setScreenOn(P, FALSE) EXCEPT !.powerSaveMode = TRUE,
                                         !.tick.offBy = "idle"]
      ELSE P

\* void updatePowerSaving()
updatePowerSaving(P, t) ==
    IF P.screenOn /\ t - P.lastActivityTime > TIMEOUT_OFF_MS /\ ~P.powerSaveMode
      THEN [setScreenOn(P, FALSE) EXCEPT !.powerSaveMode = TRUE,
                                         !.tick.offBy = "idle"]
      ELSE P

\* Mutant: Button B switches the screen and leaves powerSaveMode as it is.
toggleScreen_KeepMode(P, t) ==
    Bind([P EXCEPT !.lastActivityTime = t], LAMBDA P1 :
    IF P1.screenOn
      THEN [setScreenOn(P1, FALSE) EXCEPT !.tick.offBy = "toggle"]
      ELSE [setScreenOn(P1, TRUE) EXCEPT !.displayInitialized = FALSE])

\* Mutant: switching the screen back on leaves displayInitialized as it is.
toggleScreen_KeepDisplay(P, t) ==
    Bind([P EXCEPT !.lastActivityTime = t], LAMBDA P1 :
    IF P1.screenOn
      THEN [setScreenOn(P1, FALSE) EXCEPT !.powerSaveMode = TRUE,
                                          !.tick.offBy = "toggle"]
      ELSE [setScreenOn(P1, TRUE) EXCEPT !.powerSaveMode = FALSE])

\* void toggleScreen()
toggleScreen(P, t) ==
    Bind([P EXCEPT !.lastActivityTime = t], LAMBDA P1 :
    IF P1.screenOn
      THEN [setScreenOn(P1, FALSE) EXCEPT !.powerSaveMode = TRUE,
                                          !.tick.offBy = "toggle"]
      ELSE [setScreenOn(P1, TRUE) EXCEPT !.powerSaveMode = FALSE,
                                         !.displayInitialized = FALSE])

(***************************************************************************)
(* The display.  What a call of updateDisplay draws is recorded in         *)
(* tick.redrawn, by widget.                                                *)
(***************************************************************************)
\* The widgets drawn by updateHeader, updateTxSection, updateRxLog and
\* updateButtons.
Widgets == {"canLed", "sdIcon", "chargeIndicator", "battery", "txSection",
            "rxLog", "buttonA", "buttonB", "buttonC"}

\* A widget is drawn.
Draw(P, w) == [P EXCEPT !.tick.redrawn = @ \cup {w}]

\* void updateHeader(bool canOk): bat is getBatteryPercent(), chg is
\* M5.Axp.isCharging().
updateHeader(P, bat, chg) ==
    Bind(Draw(P, "canLed"), LAMBDA P1 :
    Bind(IF P1.sdLoggingEnabled # P1.lastSDState
            \/ P1.sdInitialized # P1.lastSDInit
           THEN Draw([P1 EXCEPT !.lastSDState = P1.sdLoggingEnabled,
                                !.lastSDInit = P1.sdInitialized], "sdIcon")
           ELSE P1, LAMBDA P2 :
    Bind(IF chg # P2.lastFastCharge
           THEN Draw([P2 EXCEPT !.lastFastCharge = chg], "chargeIndicator")
           ELSE P2, LAMBDA P3 :
    IF bat # P3.lastBatPercent \/ chg # P3.lastCharging
      THEN Draw([P3 EXCEPT !.lastBatPercent = bat, !.lastCharging = chg],
                "battery")
      ELSE P3)))

\* void updateTxSection()
updateTxSection(P) ==
    IF P.txCount # P.lastTxCount
      THEN Draw([P EXCEPT !.lastTxCount = P.txCount,
                          !.tick.lcd.indicator = PlayText(P.sendingEnabled)],
                "txSection")
      ELSE P

\* for (...; msgDisplayed < 4; ...): the rows of the message list.
RX_VIEW_SIZE == 4

\* rxLog[(rxLogIndex - 1 - i + 5) % 5]
SlotBack(P, i) == P.rxLog[(P.rxLogIndex - 1 - i + RX_LOG_SIZE) % RX_LOG_SIZE]

\* One pass of the for loop of updateRxLog, on the rows shown so far:
\* if (rxLog[idx].len > 0) { ...; msgDisplayed++; }
rxLogList(P, i, shown) ==
    IF i < RX_LOG_SIZE /\ Len(shown) < RX_VIEW_SIZE /\ SlotBack(P, i).len > 0
      THEN Append(shown, SlotBack(P, i))
      ELSE shown

\* for (int i = 0; i < 5 && msgDisplayed < 4; i++) { ... }
RECURSIVE rxLogListLoop(_, _, _)
rxLogListLoop(P, i, shown) ==
    IF i < RX_LOG_SIZE
      THEN rxLogListLoop(P, i + 1, rxLogList(P, i, shown))
      ELSE shown

\* void updateRxLog()
updateRxLog(P) ==
    IF P.rxCount = P.lastRxCount
      THEN P
      ELSE Draw([P EXCEPT !.lastRxCount = P.rxCount,
                          !.tick.listed = rxLogListLoop(P, 0, <<>>),
                          !.tick.lcd.rxCount = P.rxCount,
                          !.tick.lcd.rxList = rxLogListLoop(P, 0, <<>>)],
                "rxLog")

\* void updateButtons()
updateButtons(P) ==
    LET sendChanged == P.sendingEnabled # P.lastSendingState
        sdChanged   == P.sdLoggingEnabled # P.lastSDLoggingState
    IN  Bind(IF ~P.buttonsDrawn \/ sendChanged
               THEN Draw([P EXCEPT !.lastSendingState = P.sendingEnabled,
                                   !.tick.lcd.buttonA = PlayText(P.sendingEnabled)],
                         "buttonA")
               ELSE P, LAMBDA P1 :
        Bind(IF ~P1.buttonsDrawn THEN Draw(P1, "buttonB") ELSE P1, LAMBDA P2 :
        Bind(IF ~P2.buttonsDrawn \/ sdChanged
               THEN Draw([P2 EXCEPT !.lastSDLoggingState = P2.sdLoggingEnabled],
                         "buttonC")
               ELSE P2, LAMBDA P3 :
        [P3 EXCEPT !.buttonsDrawn = TRUE])))

\* The values the widgets show: the battery level and the charging flag as
\* read by the call, the counters and the switches.
LiveState(P, bat, chg) ==
    [bat |-> bat, chg |-> chg, txCount |-> P.txCount, rxCount |-> P.rxCount,
     sendingEnabled |-> P.sendingEnabled,
     sdLoggingEnabled |-> P.sdLoggingEnabled,
     sdInitialized |-> P.sdInitialized]

\* The branch of updateDisplay taken when displayInitialized is false:
\* fillScreen, drawStaticElements and the reset of the cached values.
forceRedraw(P) ==
    [P EXCEPT !.displayInitialized = TRUE,
              !.lastBatPercent = -1,
              !.lastTxCount = 0,
              !.lastRxCount = 0,
              !.lastSendingState = ~P.sendingEnabled,
              !.lastSDLoggingState = ~P.sdLoggingEnabled,
              !.buttonsDrawn = FALSE,
              !.tick.full = TRUE,
              !.tick.lcd = BlankLcd]

\* void updateDisplay(bool canOk)
updateDisplay(P, bat, chg) ==
    Bind([P EXCEPT !.tick.refreshed = TRUE, !.tick.redrawn = {},
                   !.tick.lastFull = ~P.displayInitialized,
                   !.tick.shown = LiveState(P, bat, chg)], LAMBDA P0 :
    Bind(IF ~P0.displayInitialized THEN forceRedraw(P0) ELSE P0, LAMBDA P1 :
    Bind(updateHeader(P1, bat, chg), LAMBDA P2 :
    Bind(updateTxSection(P2), LAMBDA P3 :
    Bind(updateRxLog(P3), LAMBDA P4 :
    updateButtons(P4))))))

(***************************************************************************)
(* Bus I/O on the program state.                                           *)
(***************************************************************************)
\* A frame is latched by the controller; the handler runs on the falling
\* edge of the interrupt pin (see FrameArrives).
frameArrives(P, f) ==
    [P EXCEPT !.canRxQueue = Append(@, f),
              !.canMsgReceived = IF P.canRxQueue = <<>> THEN TRUE ELSE @]

\* The while loop of receiveCanMessages when no frame arrives while it runs:
\* every frame the controller holds is read, stored, counted and logged.
RECURSIVE drainFrames(_, _, _, _)
drainFrames(P, t, sid, e) ==
    IF ~MsgAvail(P.canRxQueue)
      THEN P
      ELSE LET f == Head(P.canRxQueue)
           IN  Bind([P EXCEPT !.canRxQueue = Tail(@),
                              !.rxLog = StoreFrame(@, P.rxLogIndex, f),
                              !.rxLogIndex = NextRxLogIndex(@),
                              !.rxCount = @ + 1], LAMBDA P1 :
               Bind(logCanFrame(P1, "RX", f.id, f.len, f.data, t, sid, e),
                    LAMBDA P2 : drainFrames(P2, t, sid, e)))

\* void receiveCanMessages()
receiveCanMessages(P, t, sid, e) ==
    [drainFrames(P, t, sid, e) EXCEPT !.canMsgReceived = FALSE]

\* The frame the build with logging sends.
TxFrame == [id |-> CAN_FRAME_ID, len |-> CAN_FRAME_LEN, data |-> CAN_FRAME_DATA]

\* Mutant: a frame the controller refused is counted all the same.
sendCanMessage_CountFailed(P, ok, t, sid, e) ==
    Bind([P EXCEPT !.tick.sends = Append(@, [frame |-> TxFrame, ok |-> ok]),
                   !.txCount = @ + 1], LAMBDA P1 :
    IF ok
      THEN Bind([P1 EXCEPT !.lastTx = TxFrame, !.tick.txLogged = @ + 1],
                LAMBDA P2 :
           logCanFrame(P2, "TX", CAN_FRAME_ID, CAN_FRAME_LEN, CAN_FRAME_DATA,
                       t, sid, e))
      ELSE P1)

\* void sendCanMessage(): ok is CAN.sendMsgBuf(...) == CAN_OK.
sendCanMessage(P, ok, t, sid, e) ==
    Bind([P EXCEPT !.tick.sends = Append(@, [frame |-> TxFrame, ok |-> ok])],
         LAMBDA P1 :
    IF ok
      THEN Bind([P1 EXCEPT !.txCount = @ + 1,
                           !.lastTx = TxFrame,
                           !.tick.txLogged = @ + 1], LAMBDA P2 :
           logCanFrame(P2, "TX", CAN_FRAME_ID, CAN_FRAME_LEN, CAN_FRAME_DATA,
                       t, sid, e))
      ELSE P1)

(***************************************************************************)
(* The statements of loop(), in the build with logging and power           *)
(* management, at the time t the pass read from millis().                  *)
(***************************************************************************)
\* The pass sees a button press or a touch.
Saw(P, what, t) ==
    [P EXCEPT !.tick.pressed = @ \cup {what}, !.tick.activity = t]

\* Mutant: the frames the controller holds are left for a later statement.
loopReceive_Deferred(P, t, sid, e) == P

\* if (canMsgReceived) { receiveCanMessages(); }
loopReceive(P, t, sid, e) ==
    IF P.canMsgReceived THEN receiveCanMessages(P, t, sid, e) ELSE P

\* Mutant: the periodic send is skipped while the screen is off.
loopPeriodicTx_ScreenOnly(P, t, ok, sid, e) ==
    IF P.screenOn /\ P.sendingEnabled /\ t - P.lastTxTime >= TX_PERIOD_MS
      THEN Bind([P EXCEPT !.lastTxTime = t, !.tick.periodic = TRUE], LAMBDA P1 :
           sendCanMessage(P1, ok, t, sid, e))
      ELSE P

\* Mutant: the period restarts only when the controller took the frame.
loopPeriodicTx_StampOnSuccess(P, t, ok, sid, e) ==
    IF P.sendingEnabled /\ t - P.lastTxTime >= TX_PERIOD_MS
      THEN Bind([P EXCEPT !.lastTxTime = IF ok THEN t ELSE @,
                          !.tick.periodic = TRUE], LAMBDA P1 :
           sendCanMessage(P1, ok, t, sid, e))
      ELSE P

\* if (sendingEnabled && (now - lastTxTime >= 1000)) { lastTxTime = now;
\* sendCanMessage(); }
loopPeriodicTx(P, t, ok, sid, e) ==
    IF P.sendingEnabled /\ t - P.lastTxTime >= TX_PERIOD_MS
      THEN Bind([P EXCEPT !.lastTxTime = t, !.tick.periodic = TRUE], LAMBDA P1 :
           sendCanMessage(P1, ok, t, sid, e))
      ELSE P

\* if (sdLoggingEnabled && (now - lastImuLogTime >= IMU_LOG_INTERVAL_MS))
\* { logImuData(...); lastImuLogTime = now; }
loopImu(P, t, sid, e) ==
    IF P.sdLoggingEnabled /\ t - P.lastImuLogTime >= IMU_LOG_INTERVAL_MS
      THEN Bind(logImuData(P, t, sid, e), LAMBDA P1 :
           [P1 EXCEPT !.lastImuLogTime = t])
      ELSE P

\* if (M5.BtnA.wasPressed()) { ... }
loopButtonA(P, t, pressed) ==
    IF ~pressed THEN P
    ELSE
      Bind(wakeScreen(Saw(P, "A", t), t), LAMBDA P1 :
      IF P1.powerSaveMode
        THEN [P1 EXCEPT !.powerSaveMode = FALSE]
        ELSE Bind([P1 EXCEPT !.sendingEnabled = ~@], LAMBDA P2 :
             IF P2.sendingEnabled
               THEN [P2 EXCEPT !.lastTxTime = t, !.tick.enabledIn = P2.tick.n]
               ELSE P2))

\* if (M5.BtnB.wasPressed()) { toggleScreen(); }
loopButtonB(P, t, pressed) ==
    IF pressed THEN Bind(Saw(P, "B", t), LAMBDA P1 : toggleScreen(P1, t)) ELSE P

\* if (M5.BtnC.wasPressed()) { wakeScreen(); if (!powerSaveMode)
\* toggleSDLogging(); }
loopButtonC(P, t, pressed, sid, e) ==
    IF ~pressed THEN P
    ELSE
      Bind(wakeScreen(Saw(P, "C", t), t), LAMBDA P1 :
      IF ~P1.powerSaveMode THEN toggleSDLogging(P1, t, sid, e) ELSE P1)

\* Mutant: a touch on the lit screen is not taken as activity.
loopTouch_WakeOnly(P, t, pressed) ==
    IF ~pressed THEN P
    ELSE IF ~P.screenOn THEN Bind(Saw(P, "touch", t), LAMBDA P1 : wakeScreen(P1, t))
    ELSE Saw(P, "touch", t)

\* if (M5.Touch.ispressed()) { if (!screenOn) wakeScreen(); else
\* lastActivityTime = now; }
loopTouch(P, t, pressed) ==
    IF ~pressed THEN P
    ELSE IF ~P.screenOn THEN Bind(Saw(P, "touch", t), LAMBDA P1 : wakeScreen(P1, t))
    ELSE [Saw(P, "touch", t) EXCEPT !.lastActivityTime = t]

\* Mutant: the display is refreshed whether the screen is on or off.
loopDisplay_AnyScreen(P, t, bat, chg) ==
    IF t - P.lastDisplayUpdate >= DISPLAY_INTERVAL_MS
      THEN Bind([P EXCEPT !.lastDisplayUpdate = t], LAMBDA P1 :
           updateDisplay(P1, bat, chg))
      ELSE P

\* if (screenOn && (now - lastDisplayUpdate >= 100)) { lastDisplayUpdate =
\* now; updateDisplay(true); }
loopDisplay(P, t, bat, chg) ==
    IF P.screenOn /\ t - P.lastDisplayUpdate >= DISPLAY_INTERVAL_MS
      THEN Bind([P EXCEPT !.lastDisplayUpdate = t], LAMBDA P1 :
           updateDisplay(P1, bat, chg))
      ELSE P

\* The pass ends: the record of the next pass is opened.
nextTick(P) ==
    [P EXCEPT !.tick = [NoTick EXCEPT !.n = P.tick.n + 1,
                                      !.activity = P.tick.activity,
                                      !.lastFull = P.tick.lastFull,
                                      !.manual = P.tick.manual,
                                      !.touchSince = P.tick.touchSince,
                                      !.fired = P.tick.fired,
                                      !.enabledIn = P.tick.enabledIn,
                                      !.lcd = P.tick.lcd,
                                      !.shown = P.tick.shown]]

(***************************************************************************)
(* Initial state: the state at the end of setup().                         *)
(***************************************************************************)
InitRx ==
    /\ pc = "loop"
    /\ canMsgReceived = FALSE
    /\ canRxQueue = <<>>
    /\ rxLog = [i \in 0..(RX_LOG_SIZE - 1) |-> EmptySlot]
    /\ rxLogIndex = 0
    /\ rxCount = 0
    /\ arrived = 0
    /\ drained = <<>>
    /\ call = NoCall

InitLog ==
    /\ now = 0
    /\ sd = [n \in FileNames |-> NoFile]
    /\ sdInitialized \in BOOLEAN       \* initSD() in setup() may fail
    /\ sdLoggingEnabled = FALSE
    /\ logFile = ClosedFile
    /\ logFileSize = 0
    /\ imuLogFile = ClosedFile
    /\ imuLogFileSize = 0
    /\ lastImuLogTime = 0
    /\ currentSessionId = ""
    /\ lastFlush = 0
    /\ lastImuFlush = 0
    /\ sessions = 0
    /\ lastOp = NoOp

\* The variables the receive path and the logger neither read nor write, as
\* their initializers set them.
InitGlobals ==
    /\ txCount = BootState.txCount
    /\ lastTxTime = BootState.lastTxTime
    /\ sendingEnabled = BootState.sendingEnabled
    /\ lastTx = BootState.lastTx
    /\ screenOn = BootState.screenOn
    /\ currentBrightness = BootState.currentBrightness
    /\ lastActivityTime = BootState.lastActivityTime
    /\ powerSaveMode = BootState.powerSaveMode
    /\ displayInitialized = BootState.displayInitialized
    /\ lastDisplayUpdate = BootState.lastDisplayUpdate
    /\ lastBatPercent = BootState.lastBatPercent
    /\ lastCharging = BootState.lastCharging
    /\ lastTxCount = BootState.lastTxCount
    /\ lastRxCount = BootState.lastRxCount
    /\ buttonsDrawn = BootState.buttonsDrawn
    /\ lastSendingState = BootState.lastSendingState
    /\ lastSDLoggingState = BootState.lastSDLoggingState
    /\ lastSDState = BootState.lastSDState
    /\ lastSDInit = BootState.lastSDInit
    /\ lastFastCharge = BootState.lastFastCharge
    /\ canInitAttempts = 0
    /\ canResult = "none"
    /\ tick = NoTick
    /\ twin = BootState
    /\ currentFrameIndex = 0
    /\ debugSerial = TRUE
    /\ touchStart = 0
    /\ touchStartReleased = 0
    /\ longPressHandled = FALSE
    /\ lastFrameIndex = -1
    /\ lastDebugState = TRUE

Init == InitRx /\ InitLog /\ InitGlobals

(***************************************************************************)
(* Calls of the logger.                                                    *)
(***************************************************************************)
\* The record of a call of function op that starts in state L.
OpRecord(op, L, skipped, opens, sid, e) ==
    LET o == openBoth(IF op = "toggleSDLogging"
                        THEN [L EXCEPT !.currentSessionId = sid]
                        ELSE closeForRotation(L, sid), e)
    IN  [op |-> op, skipped |-> skipped, opens |-> opens,
         canOk |-> opens /\ o.canOk, imuOk |-> opens /\ o.imuOk]

\* A call of a logger function that takes the logger from L to M.
LoggerCall(op, L, M, skipped, opens, sid, e) ==
    /\ opens => sessions < MaxSessions
    /\ SetLoggerState(M)
    /\ sessions' = IF opens THEN sessions + 1 ELSE sessions
    /\ lastOp' = OpRecord(op, L, skipped, opens, sid, e)

\* logCanFrame(type, id, len, data) called from the main loop.
LogCanFrameCall(type, id, len, data) ==
    LET L     == LoggerState
        skips == logCanFrameSkips(L)
        opens == ~skips /\ rotationDue(L)
    IN
    \E sid \in DrawnSessionIds(opens, L.currentSessionId),
       e \in OpenOutcomes(opens, L.sdInitialized) :
      LoggerCall("logCanFrame", L, logCanFrame(L, type, id, len, data, now, sid, e),
                 skips, opens, sid, e)

\* logImuData(...) called from the main loop.
LogImuDataCall ==
    LET L     == LoggerState
        skips == logImuDataSkips(L)
        opens == ~skips /\ rotationDue(L)
    IN
    \E sid \in DrawnSessionIds(opens, L.currentSessionId),
       e \in OpenOutcomes(opens, L.sdInitialized) :
      LoggerCall("logImuData", L, logImuData(L, now, sid, e), skips, opens, sid, e)

\* toggleSDLogging() called from the main loop (Button C).
ToggleSDLoggingCall ==
    LET L     == LoggerState
        opens == ~L.sdLoggingEnabled
    IN
    \E sid \in DrawnSessionIds(opens, L.currentSessionId),
       e \in OpenOutcomes(opens, L.sdInitialized) :
      LoggerCall("toggleSDLogging", L, toggleSDLogging(L, now, sid, e),
                 FALSE, opens, sid, e)

(***************************************************************************)
(* The bus controller and its interrupt line.                              *)
(***************************************************************************)
\* void IRAM_ATTR canISR() { canMsgReceived = true; }
canISR == canMsgReceived' = TRUE

\* A frame arrives on the bus and is latched in a free receive buffer.  The
\* interrupt pin is low while a buffer holds an unread frame, and the handler
\* is attached to its FALLING edge: it runs when the pin goes from high to
\* low, that is when the frame arrives with no unread frame pending.
FrameArrives(len) ==
    /\ arrived < MaxFrames
    /\ Len(canRxQueue) < MaxQueue
    /\ arrived' = arrived + 1
    /\ canRxQueue' = Append(canRxQueue, BusFrame(arrived + 1, len))
    /\ IF canRxQueue = <<>> THEN canISR ELSE UNCHANGED canMsgReceived
    /\ UNCHANGED <<pc, rxLog, rxLogIndex, rxCount, drained, call, now, logVars, loopVars>>

(***************************************************************************)
(* loop() and receiveCanMessages().                                        *)
(***************************************************************************)
\* if (canMsgReceived) { receiveCanMessages(); }
LoopCheckFlag ==
    /\ pc = "loop"
    /\ IF canMsgReceived
         THEN /\ pc' = "drain"
              /\ call' = [active |-> TRUE, queue0 |-> canRxQueue,
                          rxCount0 |-> rxCount, index0 |-> rxLogIndex,
                          arrived0 |-> arrived, clears |-> 0,
                          rxCountAtClear |-> 0]
         ELSE /\ pc' = "rest"
              /\ call' = NoCall
    /\ UNCHANGED <<canMsgReceived, canRxQueue, rxLog, rxLogIndex, rxCount,
                   arrived, drained, now, logVars, loopVars>>

\* One iteration of the while loop: checkReceive() reports a frame, readMsgBuf
\* takes the oldest one, it is stored in the ring buffer, counted and handed
\* to the logger.
DrainFrame ==
    /\ pc = "drain"
    /\ MsgAvail(canRxQueue)
    /\ LET f == Head(canRxQueue) IN
         /\ canRxQueue' = Tail(canRxQueue)
         /\ rxLog' = StoreFrame(rxLog, rxLogIndex, f)
         /\ rxLogIndex' = NextRxLogIndex(rxLogIndex)
         /\ rxCount' = rxCount + 1
         /\ drained' = Append(drained, f)
         /\ LogCanFrameCall("RX", f.id, f.len, f.data)
    /\ UNCHANGED <<pc, canMsgReceived, arrived, call, now, loopVars>>

\* checkReceive() reports no frame: the while loop is left.
DrainDone ==
    /\ pc = "drain"
    /\ ~MsgAvail(canRxQueue)
    /\ pc' = "clear"
    /\ UNCHANGED <<canMsgReceived, canRxQueue, rxLog, rxLogIndex, rxCount,
                   arrived, drained, call, now, logVars, loopVars>>

\* canMsgReceived = false;
ClearFlag ==
    /\ pc = "clear"
    /\ canMsgReceived' = FALSE
    /\ call' = [call EXCEPT !.active = FALSE,
                            !.clears = @ + 1,
                            !.rxCountAtClear = rxCount]
    /\ pc' = "rest"
    /\ UNCHANGED <<canRxQueue, rxLog, rxLogIndex, rxCount, arrived, drained,
                   now, logVars, loopVars>>

\* The rest of loop() down to delay(10): with automatic sending and logging
\* off (their values after setup) and no button or touch, none of it writes
\* the receive state.
LoopRest ==
    /\ pc = "rest"
    /\ pc' = "loop"
    /\ UNCHANGED <<canMsgReceived, canRxQueue, rxLog, rxLogIndex, rxCount,
                   arrived, drained, call, now, logVars, loopVars>>

NextRx ==
    \/ \E len \in FrameLens : FrameArrives(len)
    \/ LoopCheckFlag
    \/ DrainFrame
    \/ DrainDone
    \/ ClearFlag
    \/ LoopRest

\* The receive path: frames arrive at any moment of the main loop.
SpecRx == Init /\ [][NextRx]_vars

(***************************************************************************)
(* The logger under every sequence of calls the main loop can make.        *)
(***************************************************************************)
\* The frame handed to logCanFrame: the transmitted frame (sendCanMessage).
\* The function only prints its arguments, so one frame stands for all.
LoggedFrames ==
    {[type |-> "TX", id |-> CAN_FRAME_ID, len |-> CAN_FRAME_LEN, data |-> CAN_FRAME_DATA]}

LogCanFrame ==
    /\ \E f \in LoggedFrames : LogCanFrameCall(f.type, f.id, f.len, f.data)
    /\ UNCHANGED <<rxVars, now, loopVars>>

LogImuData ==
    /\ LogImuDataCall
    /\ UNCHANGED <<rxVars, now, loopVars>>

ToggleSDLogging ==
    /\ ToggleSDLoggingCall
    /\ UNCHANGED <<rxVars, now, loopVars>>

\* millis() advances.
TimePasses ==
    /\ now < MaxTicks * TimeStep
    /\ now' = now + TimeStep
    /\ UNCHANGED <<rxVars, logVars, loopVars>>

NextLog ==
    \/ ToggleSDLogging
    \/ LogCanFrame
    \/ LogImuData
    \/ TimePasses

SpecLog == Init /\ [][NextLog]_vars


(***************************************************************************)
(* The rows of the bus log: logCanFrame is called with transmitted and     *)
(* received frames of several identifiers and lengths, at several times.   *)
(***************************************************************************)
\* The frames handed to logCanFrame: the transmitted frame, and received
\* frames with a short and a long identifier, without and with payload.
FormatFrames ==
    {[type |-> "TX", id |-> CAN_FRAME_ID, len |-> CAN_FRAME_LEN,
      data |-> CAN_FRAME_DATA],
     [type |-> "RX", id |-> 10, len |-> 0, data |-> <<>>],
     [type |-> "RX", id |-> 74565, len |-> 3, data |-> <<0, 171, 9>>]}

\* The value millis() advances to, from 0.
FormatTimes == {1000}

FormatLogCanFrame ==
    /\ \E f \in FormatFrames : LogCanFrameCall(f.type, f.id, f.len, f.data)
    /\ UNCHANGED <<rxVars, now, loopVars>>

\* millis() advances.
FormatTimePasses ==
    /\ \E t \in FormatTimes : t > now /\ now' = t
    /\ UNCHANGED <<rxVars, logVars, loopVars>>

NextFormat ==
    \/ ToggleSDLogging
    \/ FormatLogCanFrame
    \/ FormatTimePasses

SpecFormat == Init /\ [][NextFormat]_vars

(***************************************************************************)
(* setup() and loop() of the build with logging and power management,      *)
(* statement by statement.  The second run (twin) executes each statement  *)
(* with the first one, on the same bus traffic, timer values and results   *)
(* of the controller and of the card.                                      *)
(***************************************************************************)
\* delay(100) after Serial.begin
SERIAL_DELAY_MS == 100

\* delay(500) after a failed CAN.begin
CAN_RETRY_DELAY_MS == 500

\* delay(1000) before the first screen
SPLASH_DELAY_MS == 1000

\* while(1) { M5.update(); delay(100); }
HALT_DELAY_MS == 100

\* delay(10) at the end of loop()
LOOP_DELAY_MS == 10

\* lastTx as setup() leaves it: memset, id = 1234, len = 8.
SetupLastTx == [EmptySlot EXCEPT !.id = 1234, !.len = 8]

\* setup() after the controller has answered CAN_OK, at time t: power
\* management, SD card, structures and the initial display.
setup(P, t, cardOk, bat, chg) ==
    Bind([setScreenOn(P, TRUE) EXCEPT !.lastActivityTime = t], LAMBDA P1 :
    Bind(initSD(P1, cardOk).st, LAMBDA P2 :
    Bind([P2 EXCEPT !.lastTx = SetupLastTx,
                    !.rxLog = [i \in 0..(RX_LOG_SIZE - 1) |-> EmptySlot],
                    !.displayInitialized = FALSE], LAMBDA P3 :
    Bind(updateDisplay(P3, bat, chg), LAMBDA P4 :
    Draw(P4, "sdIcon")))))

\* The program starts: setup() has reached its do-while loop.
InitBoot ==
    /\ pc = "setup"
    /\ now = SERIAL_DELAY_MS
    /\ ProgramStateIs(BootState)
    /\ arrived = 0
    /\ drained = <<>>
    /\ call = NoCall
    /\ sessions = 0
    /\ lastOp = NoOp
    /\ canInitAttempts = 0
    /\ canResult = "none"
    /\ twin = BootState
    /\ currentFrameIndex = 0
    /\ debugSerial = TRUE
    /\ touchStart = 0
    /\ touchStartReleased = 0
    /\ longPressHandled = FALSE
    /\ lastFrameIndex = -1
    /\ lastDebugState = TRUE

\* One statement, f in the first run and g in the second: both runs go
\* from `from' to `to'.
Step2(from, to, f(_), g(_)) ==
    /\ pc = from
    /\ pc' = to
    /\ \E P \in {ProgramState} : \E Q \in {f(P)} : SetProgramState(Q)
    /\ \E T \in {twin} : twin' = g(T)
    /\ UNCHANGED <<now, arrived, drained, call, sessions, lastOp, setupVars,
                   catalogueVars>>

\* One statement on the same inputs in both runs.
Step(from, to, f(_)) ==
    /\ pc = from
    /\ pc' = to
    /\ \E r \in {[i \in {1, 2} |-> f(IF i = 1 THEN ProgramState ELSE twin)]} :
         /\ SetProgramState(r[1])
         /\ twin' = r[2]
    /\ UNCHANGED <<now, arrived, drained, call, sessions, lastOp, setupVars,
                   catalogueVars>>

\* Mutant: setup() goes on after the last failed attempt.
CanBegin_NoHalt(ok) ==
    /\ pc = "setup"
    /\ canInitAttempts' = canInitAttempts + 1
    /\ canResult' = IF ok THEN "CAN_OK" ELSE "CAN_FAILINIT"
    /\ now' = IF ok THEN now ELSE now + CAN_RETRY_DELAY_MS
    /\ pc' = IF ok THEN "init"
             ELSE IF canInitAttempts + 1 < CAN_INIT_ATTEMPTS THEN "setup"
             ELSE "init"
    /\ UNCHANGED <<canMsgReceived, canRxQueue, rxLog, rxLogIndex, rxCount,
                   arrived, drained, call, logVars, txVars, powerVars,
                   displayVars, catalogueVars, tick, twin>>

\* One pass of the do-while loop: canResult = CAN.begin(...);
\* canInitAttempts++; a failed attempt is followed by delay(500).
CanBegin(ok) ==
    /\ pc = "setup"
    /\ canInitAttempts' = canInitAttempts + 1
    /\ canResult' = IF ok THEN "CAN_OK" ELSE "CAN_FAILINIT"
    /\ now' = IF ok THEN now ELSE now + CAN_RETRY_DELAY_MS
    /\ pc' = IF ok THEN "init"
             ELSE IF canInitAttempts + 1 < CAN_INIT_ATTEMPTS THEN "setup"
             ELSE "halt"
    /\ UNCHANGED <<canMsgReceived, canRxQueue, rxLog, rxLogIndex, rxCount,
                   arrived, drained, call, logVars, txVars, powerVars,
                   displayVars, catalogueVars, tick, twin>>

\* The time at which setup() gives up: every attempt has failed.
HaltMillis == SERIAL_DELAY_MS + CAN_INIT_ATTEMPTS * CAN_RETRY_DELAY_MS

\* while(1) { M5.update(); delay(100); } after "CAN ERROR!".
HaltLoop ==
    /\ pc = "halt"
    /\ now < HaltMillis + MaxPasses * HALT_DELAY_MS
    /\ now' = now + HALT_DELAY_MS
    /\ UNCHANGED <<pc, canMsgReceived, canRxQueue, rxLog, rxLogIndex, rxCount,
                   arrived, drained, call, logVars, txVars, powerVars,
                   displayVars, setupVars, catalogueVars, tick, twin>>

\* The rest of setup(), down to its return.
SetupDone(cardOk, bat, chg) ==
    /\ pc = "init"
    /\ pc' = "loop"
    /\ \E Q \in {setup(ProgramState, now, cardOk, bat, chg)} : SetProgramState(Q)
    /\ twin' = setup(twin, now, cardOk, bat, chg)
    /\ now' = now + SPLASH_DELAY_MS
    /\ UNCHANGED <<arrived, drained, call, sessions, lastOp, setupVars,
                   catalogueVars>>

\* What generateSessionId() returns and how the card answers in one
\* statement; a statement that opens no file draws nothing.
LoggerDraws(opens, P) ==
    [sid : DrawnSessionIds(opens, P.currentSessionId),
     e   : OpenOutcomes(opens, P.sdInitialized)]

\* The draw of a statement that opens no file.
NoDraw ==
    [sid |-> "",
     e   |-> [canCard |-> TRUE, canOpen |-> TRUE, imuCard |-> TRUE, imuOpen |-> TRUE]]

\* The statement may rotate the log files (receive, periodic send, IMU) or
\* open them (Button C).
receiveOpens(P) ==
    P.canMsgReceived /\ MsgAvail(P.canRxQueue) /\ ~logCanFrameSkips(P)

periodicTxOpens(P, t) ==
    /\ P.sendingEnabled /\ t - P.lastTxTime >= TX_PERIOD_MS
    /\ ~logCanFrameSkips(P) /\ rotationDue(P)

imuOpens(P, t) ==
    /\ P.sdLoggingEnabled /\ t - P.lastImuLogTime >= IMU_LOG_INTERVAL_MS
    /\ ~logImuDataSkips(P) /\ rotationDue(P)

buttonCOpens(P) == ~P.sdLoggingEnabled

\* M5.update(); unsigned long now = millis(); if (canMsgReceived)
\* { receiveCanMessages(); }
LoopReceive(d) ==
    Step("loop", "tx",
         LAMBDA P : Bind(nextTick(P), LAMBDA P1 :
                         loopReceive(P1, now, d.sid, d.e)))

\* The automatic send.
LoopPeriodicTx(ok, d) ==
    Step("tx", "imu",
         LAMBDA P : loopPeriodicTx(P, now, ok, d.sid, d.e))

\* IMU logging.
LoopImu(d) ==
    Step("imu", "btnA",
         LAMBDA P : loopImu(P, now, d.sid, d.e))

\* Button A.
LoopButtonA(pressed) ==
    Step("btnA", "btnB",
         LAMBDA P : loopButtonA(P, now, pressed))

\* Button B; the second run may see another press than the first.
LoopButtonB(pressed, twinPressed) ==
    Step2("btnB", "btnC",
          LAMBDA P : loopButtonB(P, now, pressed),
          LAMBDA P : loopButtonB(P, now, twinPressed))

\* Button C.
LoopButtonC(pressed, d) ==
    Step("btnC", "touch",
         LAMBDA P : loopButtonC(P, now, pressed, d.sid, d.e))

\* The touch screen; the second run may see another touch than the first.
LoopTouch(pressed, twinPressed) ==
    Step2("touch", "power",
          LAMBDA P : loopTouch(P, now, pressed),
          LAMBDA P : loopTouch(P, now, twinPressed))

\* updatePowerSaving();
LoopPower ==
    Step("power", "display",
         LAMBDA P : updatePowerSaving(P, now))

\* The refresh of the display.
LoopDisplay(bat, chg) ==
    Step("display", "delay",
         LAMBDA P : loopDisplay(P, now, bat, chg))

\* delay(10), and whatever else makes the next pass begin dt ms after this
\* one.
LoopDelay(dt) ==
    /\ pc = "delay"
    /\ tick.n < MaxPasses
    /\ dt >= LOOP_DELAY_MS
    /\ pc' = "loop"
    /\ now' = now + dt
    /\ UNCHANGED <<canMsgReceived, canRxQueue, rxLog, rxLogIndex, rxCount,
                   arrived, drained, call, logVars, txVars, powerVars,
                   displayVars, setupVars, catalogueVars, tick, twin>>

\* A frame arrives on the bus between two passes.
BusDelivers(len) ==
    /\ pc = "delay"
    /\ arrived < MaxFrames
    /\ Len(canRxQueue) < MaxQueue
    /\ arrived' = arrived + 1
    /\ \E Q \in {frameArrives(ProgramState, BusFrame(arrived + 1, len))} :
         SetProgramState(Q)
    /\ twin' = frameArrives(twin, BusFrame(arrived + 1, len))
    /\ UNCHANGED <<pc, now, drained, call, sessions, lastOp, setupVars,
                   catalogueVars>>

(***************************************************************************)
(* The firmware from power-up: the controller may fail to initialize, and  *)
(* the loop runs with the send switch, bus traffic and send failures.      *)
(***************************************************************************)
\* getBatteryPercent() returns 0..100.
BatPercents == {35, 80}

NextBoot ==
    \/ \E ok \in BOOLEAN : CanBegin(ok)
    \/ HaltLoop
    \/ \E cardOk \in BOOLEAN, bat \in BatPercents, chg \in BOOLEAN :
         SetupDone(cardOk, bat, chg)
    \/ LoopReceive(NoDraw)
    \/ \E ok \in BOOLEAN : LoopPeriodicTx(ok, NoDraw)
    \/ LoopImu(NoDraw)
    \/ \E a \in BOOLEAN : LoopButtonA(a)
    \/ LoopButtonB(FALSE, FALSE)
    \/ LoopButtonC(FALSE, NoDraw)
    \/ LoopTouch(FALSE, FALSE)
    \/ LoopPower
    \/ \E bat \in BatPercents, chg \in BOOLEAN : LoopDisplay(bat, chg)
    \/ LoopDelay(TX_PERIOD_MS)
    \/ BusDelivers(CAN_MAX_LEN)

SpecBoot == InitBoot /\ [][NextBoot]_vars

(***************************************************************************)
(* The transmit path: the controller is up, the send switch and the        *)
(* logging switch are operated, the controller accepts or refuses frames,  *)
(* passes follow each other closely or a period apart, and at most one     *)
(* frame arrives between two passes.                                       *)
(***************************************************************************)
\* The times between the beginnings of two passes.
TxDelays == {LOOP_DELAY_MS, TX_PERIOD_MS - LOOP_DELAY_MS, TX_PERIOD_MS}

NextTx ==
    \/ CanBegin(TRUE)
    \/ SetupDone(TRUE, 80, FALSE)
    \/ \E d \in LoggerDraws(receiveOpens(ProgramState), ProgramState) :
         LoopReceive(d)
    \/ \E ok \in BOOLEAN :
         \E d \in LoggerDraws(periodicTxOpens(ProgramState, now), ProgramState) :
           LoopPeriodicTx(ok, d)
    \/ \E d \in LoggerDraws(imuOpens(ProgramState, now), ProgramState) :
         LoopImu(d)
    \/ \E a \in BOOLEAN : LoopButtonA(a)
    \/ LoopButtonB(FALSE, FALSE)
    \/ \E c \in BOOLEAN :
         \E d \in LoggerDraws(c /\ buttonCOpens(ProgramState), ProgramState) :
           LoopButtonC(c, d)
    \/ LoopTouch(FALSE, FALSE)
    \/ LoopPower
    \/ LoopDisplay(80, FALSE)
    \/ \E dt \in TxDelays : LoopDelay(dt)
    \/ canRxQueue = <<>> /\ BusDelivers(CAN_MAX_LEN)

SpecTx == InitBoot /\ [][NextTx]_vars

(***************************************************************************)
(* Power management: the buttons and the touch screen are operated or left *)
(* alone, and passes follow each other closely or an idle timeout apart.   *)
(* No card is present.                                                     *)
(***************************************************************************)
\* The times between the beginnings of two passes.
PowerDelays == {LOOP_DELAY_MS, TIMEOUT_OFF_MS, TIMEOUT_OFF_MS + 1}

\* The draw of a statement that finds no card: every SD.begin() fails.
NoCardDraw ==
    [sid |-> "00A1F3",
     e   |-> [canCard |-> FALSE, canOpen |-> FALSE,
              imuCard |-> FALSE, imuOpen |-> FALSE]]

NextPower ==
    \/ CanBegin(TRUE)
    \/ SetupDone(FALSE, 80, FALSE)
    \/ LoopReceive(NoDraw)
    \/ LoopPeriodicTx(TRUE, NoDraw)
    \/ LoopImu(NoDraw)
    \/ \E a \in BOOLEAN : LoopButtonA(a)
    \/ \E b \in BOOLEAN : LoopButtonB(b, b)
    \/ \E c \in BOOLEAN : LoopButtonC(c, NoCardDraw)
    \/ \E touched \in BOOLEAN : LoopTouch(touched, touched)
    \/ LoopPower
    \/ LoopDisplay(80, FALSE)
    \/ \E dt \in PowerDelays : LoopDelay(dt)

SpecPower == InitBoot /\ [][NextPower]_vars

(***************************************************************************)
(* Two runs on the same bus traffic, timer values and answers of the       *)
(* controller and of the card.  Button B and the touch screen are operated *)
(* in the first run only, so that the screen is lit in one run while it is *)
(* off in the other (the second run's screen goes off by the idle timeout  *)
(* alone); Button A and Button C are pressed only as long as the two runs  *)
(* have been the same.                                                     *)
(***************************************************************************)
\* The times between the beginnings of two passes.
TwinDelays == {TX_PERIOD_MS, TIMEOUT_OFF_MS + 1}

\* The two runs have been one and the same so far.
SameRun == twin = ProgramState

NextTwin ==
    \/ CanBegin(TRUE)
    \/ SetupDone(TRUE, 80, FALSE)
    \/ \E d \in LoggerDraws(receiveOpens(ProgramState), ProgramState) :
         LoopReceive(d)
    \/ \E ok \in BOOLEAN :
         \E d \in LoggerDraws(periodicTxOpens(ProgramState, now), ProgramState) :
           LoopPeriodicTx(ok, d)
    \/ \E d \in LoggerDraws(imuOpens(ProgramState, now), ProgramState) :
         LoopImu(d)
    \/ \E a \in BOOLEAN : (a => SameRun) /\ LoopButtonA(a)
    \/ \E b \in BOOLEAN : LoopButtonB(b, FALSE)
    \/ \E c \in BOOLEAN :
         \E d \in LoggerDraws(c /\ buttonCOpens(ProgramState), ProgramState) :
           (c => SameRun) /\ LoopButtonC(c, d)
    \/ \E touched \in BOOLEAN : LoopTouch(touched, FALSE)
    \/ LoopPower
    \/ LoopDisplay(80, FALSE)
    \/ \E dt \in TwinDelays : LoopDelay(dt)
    \/ canRxQueue = <<>> /\ BusDelivers(CAN_MAX_LEN)

SpecTwin == InitBoot /\ [][NextTwin]_vars

(***************************************************************************)
(* The display: the charging flag varies, the buttons are operated,        *)
(* frames are sent and received, and passes follow each other closely or a *)
(* period apart.  The card is in order.                                    *)
(***************************************************************************)
\* The times between the beginnings of two passes.
DisplayDelays == {LOOP_DELAY_MS, TX_PERIOD_MS}

\* The draw of a statement that finds the card in order.
CardDraw ==
    [sid |-> "00A1F3",
     e   |-> [canCard |-> TRUE, canOpen |-> TRUE, imuCard |-> TRUE, imuOpen |-> TRUE]]

NextDisplay ==
    \/ CanBegin(TRUE)
    \/ SetupDone(TRUE, 80, FALSE)
    \/ \E d \in LoggerDraws(receiveOpens(ProgramState), ProgramState) :
         LoopReceive(d)
    \/ \E d \in LoggerDraws(periodicTxOpens(ProgramState, now), ProgramState) :
         LoopPeriodicTx(TRUE, d)
    \/ \E d \in LoggerDraws(imuOpens(ProgramState, now), ProgramState) :
         LoopImu(d)
    \/ \E a \in BOOLEAN : LoopButtonA(a)
    \/ \E b \in BOOLEAN : LoopButtonB(b, b)
    \/ \E c \in BOOLEAN : LoopButtonC(c, CardDraw)
    \/ LoopTouch(FALSE, FALSE)
    \/ LoopPower
    \/ \E chg \in BOOLEAN : LoopDisplay(80, chg)
    \/ \E dt \in DisplayDelays : LoopDelay(dt)
    \/ canRxQueue = <<>> /\ BusDelivers(CAN_MAX_LEN)

SpecDisplay == InitBoot /\ [][NextDisplay]_vars

(***************************************************************************)
(* The build with the frame catalogue (src/src/main.cpp).  It has no       *)
(* logger and no power management; Button B selects the next frame of the  *)
(* catalogue, Button C switches the serial trace, and a long press on the  *)
(* touch screen selects the previous frame or clears the counters.         *)
(***************************************************************************)
\* const CarFrame carFrames[]: identifier, length and payload of each entry
\* (the payload bytes in decimal).
carFrames ==
    << [id |-> 2015, len |-> 8, name |-> "RPM",
        data |-> <<2, 1, 12, 85, 85, 85, 85, 85>>],
       [id |-> 2015, len |-> 8, name |-> "Speed",
        data |-> <<2, 1, 13, 85, 85, 85, 85, 85>>],
       [id |-> 2015, len |-> 8, name |-> "Coolant",
        data |-> <<2, 1, 5, 85, 85, 85, 85, 85>>],
       [id |-> 2015, len |-> 8, name |-> "Intake",
        data |-> <<2, 1, 15, 85, 85, 85, 85, 85>>],
       [id |-> 2015, len |-> 8, name |-> "Throttle",
        data |-> <<2, 1, 17, 85, 85, 85, 85, 85>>],
       [id |-> 2015, len |-> 8, name |-> "Fuel",
        data |-> <<2, 1, 47, 85, 85, 85, 85, 85>>],
       [id |-> 2015, len |-> 8, name |-> "Load",
        data |-> <<2, 1, 4, 85, 85, 85, 85, 85>>],
       [id |-> 2015, len |-> 8, name |-> "Voltage",
        data |-> <<2, 1, 66, 85, 85, 85, 85, 85>>],
       [id |-> 2015, len |-> 8, name |-> "VIN",
        data |-> <<2, 9, 2, 85, 85, 85, 85, 85>>],
       [id |-> 790, len |-> 8, name |-> "RPM BMW",
        data |-> <<5, 28, 0, 0, 0, 0, 0, 0>>],
       [id |-> 339, len |-> 8, name |-> "Speed VAG",
        data |-> <<0, 0, 0, 0, 0, 0, 0, 0>>],
       [id |-> 640, len |-> 8, name |-> "RPM PSA",
        data |-> <<0, 0, 0, 0, 0, 0, 0, 0>>] >>

\* const int numCarFrames = sizeof(carFrames) / sizeof(carFrames[0])
numCarFrames == Len(carFrames)

\* carFrames[i], the catalogue being indexed from 0 in the firmware.
CarFrame(i) == carFrames[i + 1]

\* The touch is held longer than this before it counts as a long press.
LONG_PRESS_MS == 800

\* The left half of the screen: t.x < 160.
TouchZones == {"left", "right"}

\* The state of the build with the frame catalogue: its globals, the statics
\* of loop(), updateTxSection and updateButtons, and the record of the pass.
CatalogueState ==
    [canMsgReceived     |-> canMsgReceived,
     canRxQueue         |-> canRxQueue,
     rxLog              |-> rxLog,
     rxLogIndex         |-> rxLogIndex,
     rxCount            |-> rxCount,
     txCount            |-> txCount,
     lastTxTime         |-> lastTxTime,
     sendingEnabled     |-> sendingEnabled,
     lastTx             |-> lastTx,
     currentFrameIndex  |-> currentFrameIndex,
     debugSerial        |-> debugSerial,
     touchStart         |-> touchStart,
     touchStartReleased |-> touchStartReleased,
     longPressHandled   |-> longPressHandled,
     displayInitialized |-> displayInitialized,
     lastDisplayUpdate  |-> lastDisplayUpdate,
     lastBatPercent     |-> lastBatPercent,
     lastCharging       |-> lastCharging,
     lastTxCount        |-> lastTxCount,
     lastRxCount        |-> lastRxCount,
     lastFrameIndex     |-> lastFrameIndex,
     buttonsDrawn       |-> buttonsDrawn,
     lastSendingState   |-> lastSendingState,
     lastDebugState     |-> lastDebugState,
     tick               |-> tick]

SetCatalogueState(M) ==
    /\ canMsgReceived' = M.canMsgReceived
    /\ canRxQueue' = M.canRxQueue
    /\ rxLog' = M.rxLog
    /\ rxLogIndex' = M.rxLogIndex
    /\ rxCount' = M.rxCount
    /\ txCount' = M.txCount
    /\ lastTxTime' = M.lastTxTime
    /\ sendingEnabled' = M.sendingEnabled
    /\ lastTx' = M.lastTx
    /\ currentFrameIndex' = M.currentFrameIndex
    /\ debugSerial' = M.debugSerial
    /\ touchStart' = M.touchStart
    /\ touchStartReleased' = M.touchStartReleased
    /\ longPressHandled' = M.longPressHandled
    /\ displayInitialized' = M.displayInitialized
    /\ lastDisplayUpdate' = M.lastDisplayUpdate
    /\ lastBatPercent' = M.lastBatPercent
    /\ lastCharging' = M.lastCharging
    /\ lastTxCount' = M.lastTxCount
    /\ lastRxCount' = M.lastRxCount
    /\ lastFrameIndex' = M.lastFrameIndex
    /\ buttonsDrawn' = M.buttonsDrawn
    /\ lastSendingState' = M.lastSendingState
    /\ lastDebugState' = M.lastDebugState
    /\ tick' = M.tick
    /\ UNCHANGED <<logVars, screenOn, currentBrightness, lastActivityTime,
                   powerSaveMode, lastSDLoggingState, lastSDState, lastSDInit,
                   lastFastCharge, setupVars, twin>>

\* void sendCanMessage() of the catalogue build: ok is
\* CAN.sendMsgBuf(...) == CAN_OK.
main_sendCanMessage(M, ok) ==
    Bind([M EXCEPT !.tick.sends =
                     Append(@, [frame |-> CarFrame(M.currentFrameIndex),
                                ok |-> ok])], LAMBDA M1 :
    IF ok
      THEN [M1 EXCEPT !.txCount = @ + 1,
                      !.lastTx = StoreFrame([i \in {0} |-> @], 0,
                                            CarFrame(M1.currentFrameIndex))[0]]
      ELSE M1)

\* void nextFrame()
nextFrame(M) ==
    [M EXCEPT !.currentFrameIndex = (@ + 1) % numCarFrames]

\* Mutant: prevFrame stops at the first frame.
prevFrame_Clamp(M) ==
    [M EXCEPT !.currentFrameIndex = IF @ = 0 THEN 0 ELSE @ - 1]

\* void prevFrame()
prevFrame(M) ==
    [M EXCEPT !.currentFrameIndex = (@ - 1 + numCarFrames) % numCarFrames]

\* The while loop of receiveCanMessages in the catalogue build when no frame
\* arrives while it runs.
RECURSIVE main_drainFrames(_)
main_drainFrames(M) ==
    IF ~MsgAvail(M.canRxQueue)
      THEN M
      ELSE Bind([M EXCEPT !.canRxQueue = Tail(@),
                          !.rxLog = StoreFrame(@, M.rxLogIndex,
                                               Head(M.canRxQueue)),
                          !.rxLogIndex = NextRxLogIndex(@),
                          !.rxCount = @ + 1], LAMBDA M1 :
           main_drainFrames(M1))

\* void receiveCanMessages() of the catalogue build
main_receiveCanMessages(M) ==
    [main_drainFrames(M) EXCEPT !.canMsgReceived = FALSE]

\* void updateHeader(bool canOk) of the catalogue build
main_updateHeader(M, bat, chg) ==
    Bind(Draw(M, "canLed"), LAMBDA M1 :
    IF bat # M1.lastBatPercent \/ chg # M1.lastCharging
      THEN Draw([M1 EXCEPT !.lastBatPercent = bat, !.lastCharging = chg],
                "battery")
      ELSE M1)

\* void updateTxSection() of the catalogue build
main_updateTxSection(M) ==
    IF M.txCount # M.lastTxCount \/ M.currentFrameIndex # M.lastFrameIndex
      THEN Draw([M EXCEPT !.lastTxCount = M.txCount,
                          !.lastFrameIndex = M.currentFrameIndex,
                          !.tick.lcd.indicator = PlayText(M.sendingEnabled)],
                "txSection")
      ELSE M

\* void updateButtons() of the catalogue build
main_updateButtons(M) ==
    Bind(IF ~M.buttonsDrawn \/ M.sendingEnabled # M.lastSendingState
           THEN Draw([M EXCEPT !.lastSendingState = M.sendingEnabled,
                               !.tick.lcd.buttonA = PlayText(M.sendingEnabled)],
                     "buttonA")
           ELSE M, LAMBDA M1 :
    Bind(IF ~M1.buttonsDrawn THEN Draw(M1, "buttonB") ELSE M1, LAMBDA M2 :
    Bind(IF ~M2.buttonsDrawn \/ M.debugSerial # M.lastDebugState
           THEN Draw([M2 EXCEPT !.lastDebugState = M2.debugSerial], "buttonC")
           ELSE M2, LAMBDA M3 :
    [M3 EXCEPT !.buttonsDrawn = TRUE])))

\* The branch of updateDisplay of the catalogue build taken when
\* displayInitialized is false.
main_forceRedraw(M) ==
    [M EXCEPT !.displayInitialized = TRUE,
              !.lastBatPercent = -1,
              !.lastTxCount = 0,
              !.lastRxCount = 0,
              !.lastDebugState = ~M.debugSerial,
              !.lastSendingState = ~M.sendingEnabled,
              !.tick.full = TRUE,
              !.tick.lcd = BlankLcd]

\* void updateDisplay(bool canOk) of the catalogue build
main_updateDisplay(M, bat, chg) ==
    Bind([M EXCEPT !.tick.refreshed = TRUE, !.tick.redrawn = {},
                   !.tick.lastFull = ~M.displayInitialized], LAMBDA M0 :
    Bind(IF ~M0.displayInitialized THEN main_forceRedraw(M0) ELSE M0,
         LAMBDA M1 :
    Bind(main_updateHeader(M1, bat, chg), LAMBDA M2 :
    Bind(main_updateTxSection(M2), LAMBDA M3 :
    Bind(updateRxLog(M3), LAMBDA M4 :
    main_updateButtons(M4))))))

\* if (canMsgReceived) { receiveCanMessages(); }
main_loopReceive(M) ==
    IF M.canMsgReceived THEN main_receiveCanMessages(M) ELSE M

\* Mutant: the periodic send does not look at sendingEnabled.
main_loopPeriodicTx_Always(M, t, ok) ==
    IF t - M.lastTxTime >= TX_PERIOD_MS
      THEN Bind([M EXCEPT !.lastTxTime = t, !.tick.periodic = TRUE],
                LAMBDA M1 : main_sendCanMessage(M1, ok))
      ELSE M

\* if (sendingEnabled && (now - lastTxTime >= 1000)) { lastTxTime = now;
\* sendCanMessage(); }
main_loopPeriodicTx(M, t, ok) ==
    IF M.sendingEnabled /\ t - M.lastTxTime >= TX_PERIOD_MS
      THEN Bind([M EXCEPT !.lastTxTime = t, !.tick.periodic = TRUE],
                LAMBDA M1 : main_sendCanMessage(M1, ok))
      ELSE M

\* if (M5.BtnA.wasPressed()) { sendingEnabled = !sendingEnabled;
\* if (sendingEnabled) lastTxTime = now; }
main_loopButtonA(M, t, pressed) ==
    IF ~pressed THEN M
    ELSE Bind([Saw(M, "A", t) EXCEPT !.sendingEnabled = ~@], LAMBDA M1 :
         IF M1.sendingEnabled
           THEN [M1 EXCEPT !.lastTxTime = t, !.tick.enabledIn = M1.tick.n]
           ELSE M1)

\* Mutant: Button B only selects the next frame.
main_loopButtonB_SelectOnly(M, t, pressed, ok) ==
    IF ~pressed THEN M ELSE nextFrame(Saw(M, "B", t))

\* Mutant: the frame is sent before the next one is selected.
main_loopButtonB_SendThenSelect(M, t, pressed, ok) ==
    IF ~pressed THEN M
    ELSE IF M.sendingEnabled
      THEN Bind(main_sendCanMessage(Saw(M, "B", t), ok), LAMBDA M1 :
           nextFrame([M1 EXCEPT !.lastTxTime = t, !.tick.manual = t]))
      ELSE nextFrame(Saw(M, "B", t))

\* Mutant: the manual send leaves lastTxTime as it is.
main_loopButtonB_KeepTimer(M, t, pressed, ok) ==
    IF ~pressed THEN M
    ELSE Bind(nextFrame(Saw(M, "B", t)), LAMBDA M1 :
         IF M1.sendingEnabled
           THEN [main_sendCanMessage(M1, ok) EXCEPT !.tick.manual = t]
           ELSE M1)

\* if (M5.BtnB.wasPressed()) { nextFrame(); if (sendingEnabled)
\* { sendCanMessage(); lastTxTime = now; } }
main_loopButtonB(M, t, pressed, ok) ==
    IF ~pressed THEN M
    ELSE Bind(nextFrame(Saw(M, "B", t)), LAMBDA M1 :
         IF M1.sendingEnabled
           THEN [main_sendCanMessage(M1, ok) EXCEPT !.lastTxTime = t,
                                                   !.tick.manual = t]
           ELSE M1)

\* if (M5.BtnC.wasPressed()) { debugSerial = !debugSerial; }
main_loopButtonC(M, t, pressed) ==
    IF pressed THEN [Saw(M, "C", t) EXCEPT !.debugSerial = ~@] ELSE M

\* memset(rxLog, 0, sizeof(rxLog))
ClearedRxLog == [i \in 0..(RX_LOG_SIZE - 1) |-> EmptySlot]

\* Mutant: the counter reset leaves the write index of the ring buffer.
longPress_KeepIndex(M, zone) ==
    IF zone = "left"
      THEN prevFrame(M)
      ELSE [M EXCEPT !.txCount = 0, !.rxCount = 0, !.rxLog = ClearedRxLog]

\* The long press: the left half of the screen selects the previous frame,
\* the right half clears the counters and the receive log.
longPress(M, zone) ==
    IF zone = "left"
      THEN prevFrame(M)
      ELSE [M EXCEPT !.txCount = 0, !.rxCount = 0, !.rxLog = ClearedRxLog,
                     !.rxLogIndex = 0]

\* What M5.Touch.ispressed() returns in the pass at time t: a touch begins
\* when the pass before saw none, and ends with the first pass that sees
\* none.
TouchSeen(M, t, touched) ==
    IF ~touched THEN [M EXCEPT !.tick.touchSince = 0, !.tick.fired = 0]
    ELSE IF M.tick.touchSince = 0
      THEN [M EXCEPT !.tick.touchSince = t, !.tick.fired = 0]
    ELSE M

\* if (M5.Touch.ispressed()) { ... } else { static unsigned long touchStart
\* = 0; touchStart = 0; }: the static of the else branch is another
\* variable than the one the pressed branch tests.
main_loopTouch(M, t, touched, zone) ==
    IF ~touched THEN [M EXCEPT !.touchStartReleased = 0]
    ELSE IF M.touchStart = 0
      THEN [Saw(M, "touch", t) EXCEPT !.touchStart = t,
                                      !.longPressHandled = FALSE]
    ELSE IF ~M.longPressHandled /\ t - M.touchStart > LONG_PRESS_MS
      THEN [longPress(Saw(Saw(M, "touch", t), zone, t), zone) EXCEPT
              !.longPressHandled = TRUE, !.tick.fired = @ + 1]
    ELSE Saw(M, "touch", t)

\* if (now - lastDisplayUpdate >= 100) { lastDisplayUpdate = now;
\* updateDisplay(true); }
main_loopDisplay(M, t, bat, chg) ==
    IF t - M.lastDisplayUpdate >= DISPLAY_INTERVAL_MS
      THEN Bind([M EXCEPT !.lastDisplayUpdate = t], LAMBDA M1 :
           main_updateDisplay(M1, bat, chg))
      ELSE M

\* setup() of the catalogue build after the controller has answered CAN_OK.
main_setup(M, bat, chg) ==
    Bind([M EXCEPT !.lastTx = SetupLastTx, !.rxLog = ClearedRxLog,
                   !.displayInitialized = FALSE], LAMBDA M1 :
    main_updateDisplay(M1, bat, chg))

\* One statement of the catalogue build.
MainStep(from, to, f(_)) ==
    /\ pc = from
    /\ pc' = to
    /\ \E M \in {f(CatalogueState)} : SetCatalogueState(M)
    /\ UNCHANGED <<now, arrived, drained, call>>

\* The rest of setup().
MainSetupDone(bat, chg) ==
    /\ pc = "init"
    /\ pc' = "loop"
    /\ \E M \in {main_setup(CatalogueState, bat, chg)} : SetCatalogueState(M)
    /\ now' = now + SPLASH_DELAY_MS
    /\ UNCHANGED <<arrived, drained, call>>

\* M5.update(); unsigned long now = millis(); if (canMsgReceived)
\* { receiveCanMessages(); }
MainReceive ==
    MainStep("loop", "tx",
             LAMBDA M : Bind(nextTick(M), LAMBDA M1 : main_loopReceive(M1)))

\* The automatic send.
MainPeriodicTx(ok) ==
    MainStep("tx", "btnA", LAMBDA M : main_loopPeriodicTx(M, now, ok))

\* Button A: play / pause.
MainButtonA(pressed) ==
    MainStep("btnA", "btnB", LAMBDA M : main_loopButtonA(M, now, pressed))

\* Button B: next frame.
MainButtonB(pressed, ok) ==
    MainStep("btnB", "btnC", LAMBDA M : main_loopButtonB(M, now, pressed, ok))

\* Button C: serial trace.
MainButtonC(pressed) ==
    MainStep("btnC", "touch", LAMBDA M : main_loopButtonC(M, now, pressed))

\* The touch screen.
MainTouch(touched, zone) ==
    MainStep("touch", "display",
             LAMBDA M : main_loopTouch(TouchSeen(M, now, touched), now,
                                       touched, zone))

\* The refresh of the display.
MainDisplay(bat, chg) ==
    MainStep("display", "delay", LAMBDA M : main_loopDisplay(M, now, bat, chg))

\* A frame arrives on the bus between two passes.
MainBusDelivers(len) ==
    /\ pc = "delay"
    /\ arrived < MaxFrames
    /\ Len(canRxQueue) < MaxQueue
    /\ arrived' = arrived + 1
    /\ \E M \in {frameArrives(CatalogueState, BusFrame(arrived + 1, len))} :
         SetCatalogueState(M)
    /\ UNCHANGED <<pc, now, drained, call>>

\* The catalogue build past a successful initialization of the controller.
InitMain ==
    /\ pc = "init"
    /\ now = SERIAL_DELAY_MS
    /\ ProgramStateIs(BootState)
    /\ arrived = 0
    /\ drained = <<>>
    /\ call = NoCall
    /\ sessions = 0
    /\ lastOp = NoOp
    /\ canInitAttempts = 1
    /\ canResult = "CAN_OK"
    /\ twin = BootState
    /\ currentFrameIndex = 0
    /\ debugSerial = TRUE
    /\ touchStart = 0
    /\ touchStartReleased = 0
    /\ longPressHandled = FALSE
    /\ lastFrameIndex = -1
    /\ lastDebugState = TRUE

\* The times between the beginnings of two passes.
MainDelays == {LOOP_DELAY_MS, TX_PERIOD_MS - LOOP_DELAY_MS, TX_PERIOD_MS}

NextMain ==
    \/ MainSetupDone(80, FALSE)
    \/ MainReceive
    \/ \E ok \in BOOLEAN : MainPeriodicTx(ok)
    \/ \E a \in BOOLEAN : MainButtonA(a)
    \/ \E b \in BOOLEAN : \E ok \in BOOLEAN : MainButtonB(b, ok)
    \/ MainButtonC(FALSE)
    \/ \E touched \in BOOLEAN : \E zone \in TouchZones :
         MainTouch(touched, zone)
    \/ MainDisplay(80, FALSE)
    \/ \E dt \in MainDelays : LoopDelay(dt)
    \/ canRxQueue = <<>> /\ MainBusDelivers(CAN_MAX_LEN)

SpecMain == InitMain /\ [][NextMain]_vars

(***************************************************************************)
(* The touch screen of the catalogue build: the screen is touched, held    *)
(* and released over several passes; the buttons are left alone.           *)
(***************************************************************************)
\* The times between the beginnings of two passes: one delay(10), the
\* long-press threshold, and just over it.
TouchDelays == {LOOP_DELAY_MS, LONG_PRESS_MS, LONG_PRESS_MS + LOOP_DELAY_MS}

\* delay(10), and whatever else makes the next pass begin dt ms after this
\* one.
TouchDelay(dt) ==
    /\ pc = "delay"
    /\ tick.n < MaxTouchPasses
    /\ dt >= LOOP_DELAY_MS
    /\ pc' = "loop"
    /\ now' = now + dt
    /\ UNCHANGED <<canMsgReceived, canRxQueue, rxLog, rxLogIndex, rxCount,
                   arrived, drained, call, logVars, txVars, powerVars,
                   displayVars, setupVars, catalogueVars, tick, twin>>

NextTouch ==
    \/ MainSetupDone(80, FALSE)
    \/ MainReceive
    \/ MainPeriodicTx(TRUE)
    \/ MainButtonA(FALSE)
    \/ MainButtonB(FALSE, TRUE)
    \/ MainButtonC(FALSE)
    \/ \E touched \in BOOLEAN : \E zone \in TouchZones :
         MainTouch(touched, zone)
    \/ MainDisplay(80, FALSE)
    \/ \E dt \in TouchDelays : TouchDelay(dt)

SpecTouch == InitMain /\ [][NextTouch]_vars

(***************************************************************************)
(* The message list of the catalogue build: frames of several lengths      *)
(* arrive between the passes, and every pass refreshes the display.        *)
(***************************************************************************)
NextView ==
    \/ MainSetupDone(80, FALSE)
    \/ MainReceive
    \/ MainPeriodicTx(TRUE)
    \/ MainButtonA(FALSE)
    \/ MainButtonB(FALSE, TRUE)
    \/ MainButtonC(FALSE)
    \/ MainTouch(FALSE, "left")
    \/ MainDisplay(80, FALSE)
    \/ LoopDelay(DISPLAY_INTERVAL_MS)
    \/ \E len \in FrameLens : MainBusDelivers(len)

SpecView == InitMain /\ [][NextView]_vars

(***************************************************************************)
(* The ring buffer of the catalogue build: frames arrive between the       *)
(* passes, the right zone of the screen is touched or left alone, and      *)
(* passes follow each other closely or a long press apart.                 *)
(***************************************************************************)
RingDelays == {LOOP_DELAY_MS, LONG_PRESS_MS + LOOP_DELAY_MS}

NextRing ==
    \/ MainSetupDone(80, FALSE)
    \/ MainReceive
    \/ MainPeriodicTx(TRUE)
    \/ MainButtonA(FALSE)
    \/ MainButtonB(FALSE, TRUE)
    \/ MainButtonC(FALSE)
    \/ \E touched \in BOOLEAN : MainTouch(touched, "right")
    \/ MainDisplay(80, FALSE)
    \/ \E dt \in RingDelays : TouchDelay(dt)
    \/ MainBusDelivers(CAN_MAX_LEN)

SpecRing == InitMain /\ [][NextRing]_vars

(***************************************************************************)
(* The selection of the frame: the run starts with any frame of the        *)
(* catalogue selected, and Button B and the long press in the left zone    *)
(* are used.                                                               *)
(***************************************************************************)
\* The catalogue build with any frame selected, as after presses of
\* Button B in an earlier pass.
InitIndex ==
    /\ pc = "init"
    /\ now = SERIAL_DELAY_MS
    /\ ProgramStateIs(BootState)
    /\ arrived = 0
    /\ drained = <<>>
    /\ call = NoCall
    /\ sessions = 0
    /\ lastOp = NoOp
    /\ canInitAttempts = 1
    /\ canResult = "CAN_OK"
    /\ twin = BootState
    /\ currentFrameIndex \in 0..(numCarFrames - 1)
    /\ debugSerial = TRUE
    /\ touchStart = 0
    /\ touchStartReleased = 0
    /\ longPressHandled = FALSE
    /\ lastFrameIndex = -1
    /\ lastDebugState = TRUE

NextIndex ==
    \/ MainSetupDone(80, FALSE)
    \/ MainReceive
    \/ MainPeriodicTx(TRUE)
    \/ MainButtonA(FALSE)
    \/ \E b \in BOOLEAN : MainButtonB(b, TRUE)
    \/ MainButtonC(FALSE)
    \/ \E touched \in BOOLEAN : MainTouch(touched, "left")
    \/ MainDisplay(80, FALSE)
    \/ LoopDelay(LONG_PRESS_MS + LOOP_DELAY_MS)

SpecIndex == InitIndex /\ [][NextIndex]_vars

(***************************************************************************)
(* Properties of the receive path (checked under SpecRx).                  *)
(***************************************************************************)
\* Slot s of the ring buffer holds frame f: identifier, length and the
\* payload bytes of the frame.
SlotHolds(s, f) ==
    /\ s.id = f.id
    /\ s.len = f.len
    /\ \A b \in 1..f.len : s.data[b] = f.data[b]

\* The slot read k places after the write index.
SlotFrom(k) == rxLog[(rxLogIndex + k) % RX_LOG_SIZE]

\* C1: once more than 5 frames have been drained, the ring buffer holds
\* exactly the last 5 of them, and its slots read from rxLogIndex on (modulo
\* 5) give them in arrival order, oldest first.
C1_RingHoldsLastFive ==
    rxCount > RX_LOG_SIZE =>
        /\ rxCount = Len(drained)
        /\ \A k \in 0..(RX_LOG_SIZE - 1) :
             SlotHolds(SlotFrom(k), drained[Len(drained) - RX_LOG_SIZE + 1 + k])

\* More than 5 frames were drained, of more than one length.
C1_Witness ==
    /\ rxCount > RX_LOG_SIZE
    /\ \E i, j \in 1..Len(drained) : drained[i].len # drained[j].len

\* A call of receiveCanMessages has returned in this tick, it began with
\* n >= 1 frames queued, and no frame has arrived since it began.
DrainedWithoutArrival ==
    /\ pc = "rest"
    /\ call.clears > 0
    /\ Len(call.queue0) >= 1
    /\ arrived = call.arrived0

\* C2: a call of receiveCanMessages that begins with the flag set and n >= 1
\* frames queued, and during which no frame arrives, reads all n frames in
\* the controller's order, advances rxCount by n and the write index by n
\* modulo 5, and clears canMsgReceived exactly once, after the last frame
\* was stored.
C2_DrainsAllThenClearsOnce ==
    DrainedWithoutArrival =>
        LET n == Len(call.queue0) IN
        /\ canRxQueue = <<>>
        /\ rxCount = call.rxCount0 + n
        /\ rxLogIndex = (call.index0 + n) % RX_LOG_SIZE
        /\ SubSeq(drained, Len(drained) - n + 1, Len(drained)) = call.queue0
        /\ \A j \in 1..n :
             n - j < RX_LOG_SIZE =>
               SlotHolds(rxLog[(call.index0 + j - 1) % RX_LOG_SIZE], call.queue0[j])
        /\ call.clears = 1
        /\ call.rxCountAtClear = call.rxCount0 + n
        /\ canMsgReceived = FALSE

\* A call drained three queued frames and wrapped the write index.
C2_Witness ==
    /\ DrainedWithoutArrival
    /\ Len(call.queue0) = 3
    /\ rxLogIndex < call.index0

\* C3: an interrupt that fires while receiveCanMessages runs is not lost:
\* whenever the controller still holds an undrained frame at the end of a
\* loop tick, canMsgReceived is true.
C3_NoLostInterrupt ==
    (pc = "loop" /\ canRxQueue # <<>>) => canMsgReceived


(***************************************************************************)
(* Properties of the logger (checked under SpecLog).                       *)
(***************************************************************************)
BothClosed == ~logFile.open /\ ~imuLogFile.open

\* Both files are open, under the names of session sid.
BothOpenUnder(sid) ==
    /\ logFile = [open |-> TRUE, name |-> createLogFilename(sid)]
    /\ imuLogFile = [open |-> TRUE, name |-> createImuLogFilename(sid)]

\* The session identifier in the name a handle was opened under.
SessionOf(h) == h.name[2]

\* This step calls generateSessionId from rotateLogFiles: logging is on.
RotationStep == sdLoggingEnabled /\ sessions' = sessions + 1

\* This step calls generateSessionId from toggleSDLogging: logging is off.
EnableStep == ~sdLoggingEnabled /\ sessions' = sessions + 1

\* Both opens of the step returned true.
OpensSucceeded == lastOp'.canOk /\ lastOp'.imuOk

\* After the step no handle is open on file n, and all of n is on the card.
ClosedAfterStep(n) ==
    /\ ~(logFile'.open /\ logFile'.name = n)
    /\ ~(imuLogFile'.open /\ imuLogFile'.name = n)
    /\ sd'[n].synced = Len(sd'[n].lines)

\* After the step the handle that was open on file n is closed, or it was
\* opened anew under the new session's name.
ClosedOrReopened(n) ==
    \/ ClosedAfterStep(n)
    \/ n \in {createLogFilename(currentSessionId'),
               createImuLogFilename(currentSessionId')}

\* C4: a rotation closes the bus log and the motion log of the old session
\* and then either opens both files of the new session under one new
\* identifier or leaves both closed; in no state is one stream open under
\* one session identifier and the other stream under another.
C4_RotationAtomic ==
    /\ [](logFile.open /\ imuLogFile.open => SessionOf(logFile) = SessionOf(imuLogFile))
    /\ [][RotationStep =>
            /\ ClosedOrReopened(logFile.name)
            /\ ClosedOrReopened(imuLogFile.name)
            /\ \/ BothClosed'
               \/ BothOpenUnder(currentSessionId)'
            /\ OpensSucceeded <=> ~BothClosed']_vars

\* A rotation has just opened both files of a new session.
C4_Witness ==
    /\ lastOp.op \in {"logCanFrame", "logImuData"}
    /\ lastOp.opens /\ lastOp.canOk /\ lastOp.imuOk
    /\ BothOpenUnder(currentSessionId)

\* C5: between any two logger calls, sdLoggingEnabled is true if and only if
\* both logFile and imuLogFile are open; open files were both opened under
\* currentSessionId; no file is open without the other.
C5_SessionPairInvariant ==
    /\ sdLoggingEnabled <=> (logFile.open /\ imuLogFile.open)
    /\ logFile.open <=> imuLogFile.open
    /\ logFile.open => BothOpenUnder(currentSessionId)

\* Logging is on in a second session, after rows were written.
C5_Witness ==
    /\ sdLoggingEnabled
    /\ sessions >= 2
    /\ logFileSize > 0 /\ imuLogFileSize > 0

\* A row is appended to file n in this step.
RowAppended(n) ==
    /\ Len(sd'[n].lines) = Len(sd[n].lines) + 1
    /\ SubSeq(sd'[n].lines, 1, Len(sd[n].lines)) = sd[n].lines
    /\ Len(sd[n].lines) >= 1

\* C6: the rotation to a new session happens before the row that crosses the
\* rotation threshold is written: a row that takes its file over
\* MAX_LOG_FILE_SIZE is written in a call that has rotated, to the new
\* session's file.
C6_RotationBeforeCrossingRow ==
    [][\A n \in FileNames :
         (RowAppended(n) /\ Len(sd'[n].lines) > MAX_LOG_FILE_SIZE)
           => (RotationStep /\ SessionOf(logFile) # SessionOf(logFile'))]_vars

\* C7: every rotation produces a session identifier different from the one
\* of the session it replaces, so opening the new files leaves the rows of
\* the files just closed in place.
C7_RotationNewIdentifier ==
    [][RotationStep =>
         /\ currentSessionId' # currentSessionId
         /\ sd'[logFile.name].lines = sd[logFile.name].lines
         /\ sd'[imuLogFile.name].lines = sd[imuLogFile.name].lines]_vars

\* C8: when logging is being enabled and opening either file fails, any
\* file that did open is closed again, sdLoggingEnabled stays false and no
\* handle remains open.
C8_FailedEnableLeavesNothingOpen ==
    [][(EnableStep /\ ~OpensSucceeded) =>
         /\ BothClosed'
         /\ ~sdLoggingEnabled'
         /\ \A n \in FileNames : sd'[n].synced = Len(sd'[n].lines)]_vars

\* Enabling failed after one of the two files had opened.
C8_Witness ==
    /\ lastOp.op = "toggleSDLogging"
    /\ lastOp.opens
    /\ lastOp.canOk # lastOp.imuOk
    /\ ~sdLoggingEnabled

\* File n is as before the step, or holds nothing but its header line.
NoRowWritten(n) ==
    \/ sd'[n].lines = sd[n].lines
    \/ sd'[n].lines \in {<<CAN_CSV_HEADER>>, <<IMU_CSV_HEADER>>}

\* C9: when a rotation started by logCanFrame or logImuData fails to open
\* either new file, both handles end up closed, sdLoggingEnabled becomes
\* false and the pending record is written nowhere; and logging goes from
\* disabled to enabled only in a call of toggleSDLogging.
C9_FailedRotationDisablesLogging ==
    /\ [][(RotationStep /\ ~OpensSucceeded) =>
            /\ BothClosed'
            /\ ~sdLoggingEnabled'
            /\ \A n \in FileNames : NoRowWritten(n)]_vars
    /\ [][(~sdLoggingEnabled /\ sdLoggingEnabled') => ToggleSDLogging]_vars

\* A rotation has just failed after one of the two files had opened.
C9_Witness ==
    /\ lastOp.op \in {"logCanFrame", "logImuData"}
    /\ lastOp.opens
    /\ lastOp.canOk # lastOp.imuOk
    /\ ~sdLoggingEnabled

\* C10: while sdLoggingEnabled is false, calls of logCanFrame and logImuData
\* leave storage as it is: no file is created, opened, written, flushed or
\* rotated, and logFileSize, imuLogFileSize and currentSessionId keep their
\* values.
C10_DisabledLoggerIsNoOp ==
    [][((LogCanFrame \/ LogImuData) /\ ~sdLoggingEnabled) =>
         UNCHANGED <<sd, sdInitialized, sdLoggingEnabled, logFile, logFileSize,
                     imuLogFile, imuLogFileSize, currentSessionId,
                     lastFlush, lastImuFlush, sessions>>]_vars

\* logCanFrame was called with logging disabled after a session had written
\* rows: the recorded sizes of that session are still there.
C10_Witness ==
    /\ ~sdLoggingEnabled
    /\ lastOp.op = "logCanFrame" /\ lastOp.skipped
    /\ logFileSize > 0 /\ imuLogFileSize > 0

(***************************************************************************)
(* Properties of setup() (checked under SpecBoot).                         *)
(***************************************************************************)
\* The positions of the main loop.
LoopPcs == {"loop", "tx", "imu", "btnA", "btnB", "btnC", "touch", "power",
            "display", "delay"}

\* Nothing of the bus, of the log or of the loop's record changes.
NoOperation ==
    UNCHANGED <<canMsgReceived, canRxQueue, rxLog, rxLogIndex, rxCount,
                drained, txVars, sd, sdLoggingEnabled, logFile, imuLogFile,
                logFileSize, imuLogFileSize, tick>>

\* C15: setup calls CAN.begin at most 5 times; it goes on to normal
\* operation exactly when one of these calls returns CAN_OK (and at once
\* when it does), and otherwise it stays in the error loop for ever: once
\* there, nothing is received, sent or logged and no pass of loop() runs.
C15_BoundedInitThenHalt ==
    /\ [](canInitAttempts <= CAN_INIT_ATTEMPTS)
    /\ [](pc \in LoopPcs \cup {"init"} => canResult = "CAN_OK")
    /\ [](pc = "halt" => /\ canResult # "CAN_OK"
                         /\ canInitAttempts = CAN_INIT_ATTEMPTS)
    /\ [][pc = "setup" /\ canResult' = "CAN_OK" => pc' = "init"]_vars
    /\ [][pc = "setup" /\ canResult' # "CAN_OK"
            /\ canInitAttempts' < CAN_INIT_ATTEMPTS => pc' = "setup"]_vars
    /\ [][pc = "halt" => pc' = "halt" /\ NoOperation]_vars

\* All five attempts failed and the error loop has run.
C15_Witness ==
    /\ pc = "halt"
    /\ canInitAttempts = CAN_INIT_ATTEMPTS
    /\ now > HaltMillis

(***************************************************************************)
(* Properties of the transmit path (checked under SpecTx).                 *)
(***************************************************************************)
\* The statement of the automatic send runs.
PeriodicStatement == pc = "tx" /\ pc' = "imu"

\* The condition of the automatic send, on the state before the statement.
PeriodElapsed == sendingEnabled /\ now - lastTxTime >= TX_PERIOD_MS

\* The statement called CAN.sendMsgBuf once, with result ok.
SentOnce(ok) == Len(tick'.sends) = 1 /\ tick'.sends[1].ok = ok

\* C16: the automatic send attempts a frame exactly when sending is enabled
\* and at least 1000 ms have passed since lastTxTime; on an attempt
\* lastTxTime becomes the time of the pass whether or not the controller
\* took the frame; txCount grows by one and one TX record is handed to the
\* logger exactly when the controller answered CAN_OK.
C16_PeriodicSend ==
    [][PeriodicStatement =>
         /\ tick'.periodic = PeriodElapsed
         /\ Len(tick'.sends) = IF PeriodElapsed THEN 1 ELSE 0
         /\ lastTxTime' = IF PeriodElapsed THEN now ELSE lastTxTime
         /\ txCount' = IF PeriodElapsed /\ tick'.sends[1].ok
                         THEN txCount + 1 ELSE txCount
         /\ tick'.txLogged = IF PeriodElapsed /\ tick'.sends[1].ok
                               THEN 1 ELSE 0]_vars

\* The automatic send fired with logging on, the controller took the frame
\* and the frame went to the logger.
C16_Witness ==
    /\ pc = "imu"
    /\ tick.periodic
    /\ tick.sends # <<>> /\ tick.sends[1].ok
    /\ tick.txLogged = 1
    /\ sdLoggingEnabled /\ logFile.open
    /\ lastTxTime = now

\* C18: a refused frame stops nothing and is not sent again in the pass;
\* txCount, lastTx and the log files are as before the attempt; no pass
\* makes more than one attempt, and every attempt is the automatic send of
\* its period (until the pass ends, lastTxTime is the time of the pass).
C18_FailedSendLeavesState ==
    /\ [][PeriodicStatement /\ tick'.sends # <<>> /\ ~tick'.sends[1].ok =>
            /\ SentOnce(FALSE)
            /\ tick'.txLogged = 0
            /\ UNCHANGED <<txCount, lastTx, sd, logFile, logFileSize,
                           imuLogFile, imuLogFileSize, sdLoggingEnabled>>]_vars
    /\ [](Len(tick.sends) <= 1)
    /\ [](pc # "loop" /\ tick.sends # <<>> => tick.periodic /\ lastTxTime = now)

\* The controller refused a frame while logging was on, and the pass has
\* gone on to its next statements.
C18_Witness ==
    /\ pc = "display"
    /\ tick.sends # <<>> /\ ~tick.sends[1].ok
    /\ sdLoggingEnabled /\ logFile.open
    /\ txCount > 0

(***************************************************************************)
(* Properties of power management (checked under SpecPower).               *)
(***************************************************************************)
\* A statement of the pass sees a button press or a touch.
ActivitySeen == tick'.pressed # {} /\ tick'.pressed # tick.pressed

\* updatePowerSaving switches the screen off.
IdleOff == pc = "power" /\ tick'.offBy = "idle"

\* C19: every press of Button A, B or C and every touch sets
\* lastActivityTime to the time of the pass, and the idle timeout switches
\* the screen off only when at least 15000 ms have passed since the latest
\* of them.
C19_ActivityResetsIdleTimer ==
    /\ [][ActivitySeen => lastActivityTime' = now /\ tick'.activity = now]_vars
    /\ [][IdleOff => now - tick.activity >= TIMEOUT_OFF_MS]_vars
    /\ [](tick.activity <= lastActivityTime)

\* The idle timeout switched the screen off after an earlier touch or press.
C19_Witness ==
    /\ tick.offBy = "idle"
    /\ tick.activity > 0
    /\ ~screenOn

\* The display is lit at full brightness.
OnFull == screenOn /\ currentBrightness = BRIGHTNESS_DEFAULT

\* The display is lit below full brightness.
OnDimmed == screenOn /\ 0 < currentBrightness /\ currentBrightness < BRIGHTNESS_DEFAULT

\* The display is off.
Off == ~screenOn /\ currentBrightness = 0

LogRecords(card) == [f \in DOMAIN card |-> card[f].lines]

\* C14: two runs that get the same bus traffic, timer values and send
\* results and no press of Button A or C, and differ only in the state of
\* the screen, have at every point of every pass the same txCount, rxCount,
\* ring buffer, send attempts and log records.
C14_BusAndLogIgnoreScreen ==
    /\ twin.txCount = txCount
    /\ twin.rxCount = rxCount
    /\ twin.rxLog = rxLog
    /\ twin.rxLogIndex = rxLogIndex
    /\ twin.lastTx = lastTx
    /\ twin.tick.sends = tick.sends
    /\ twin.sdLoggingEnabled = sdLoggingEnabled
    /\ LogRecords(twin.sd) = LogRecords(sd)

\* The screen is lit in one run and off in the other, and the run has sent,
\* received and logged frames since.
C14_Witness ==
    /\ twin.screenOn # screenOn
    /\ tick.sends # <<>> /\ tick.sends[1].ok
    /\ tick.txLogged = 1
    /\ rxCount > 0
    /\ sdLoggingEnabled /\ logFile.open
    /\ pc = "delay"

(***************************************************************************)
(* Properties of the display (checked under SpecDisplay).                  *)
(***************************************************************************)
\* The widgets drawn from cached values.
CachedWidgets == {"battery", "sdIcon", "chargeIndicator", "txSection", "rxLog",
                  "buttonA", "buttonB", "buttonC"}

\* C11: a call of updateDisplay that takes its first-time branch (the first
\* one after initialization, the first one after the screen is switched
\* back on) draws the battery, the SD icon, the charge indicator, the TX
\* section, the RX log and the three buttons, whatever the values to show.
C11_FullRedrawDrawsEveryWidget ==
    tick.full => CachedWidgets \subseteq tick.redrawn

\* C12: a call of updateDisplay that follows one that took the first-time
\* branch, with the same values to show, draws nothing.
C12_NothingRedrawnAfterFull ==
    [][pc = "display" /\ tick'.refreshed /\ ~tick'.full
         /\ tick.lastFull /\ tick'.shown = tick.shown
       => tick'.redrawn = {}]_vars


(***************************************************************************)
(* Properties of Button B in the build with the frame catalogue (checked   *)
(* under SpecMain).                                                        *)
(***************************************************************************)
\* The Button B statement of this step sees a press.
ButtonBPressed == pc = "btnB" /\ "B" \in tick'.pressed

\* The statement of this step calls CAN.sendMsgBuf once, with frame f.
SendsFrame(f) ==
    \E ok \in BOOLEAN :
      tick'.sends = Append(tick.sends, [frame |-> f, ok |-> ok])

\* C13: a press of Button B selects the next frame of the catalogue
\* (wrapping after the last one); with sendingEnabled true the newly
\* selected frame is sent by that same statement, whatever the time since
\* the last send, and with sendingEnabled false nothing is sent and the
\* counter, lastTx and lastTxTime stay as they are.
C13_ButtonBAdvancesAndSends ==
    [][ButtonBPressed =>
         /\ currentFrameIndex' = (currentFrameIndex + 1) % numCarFrames
         /\ sendingEnabled' = sendingEnabled
         /\ IF sendingEnabled
              THEN SendsFrame(CarFrame(currentFrameIndex'))
              ELSE /\ tick'.sends = tick.sends
                   /\ UNCHANGED <<txCount, lastTx, lastTxTime>>]_vars

\* Button B was pressed with sending enabled in a pass whose periodic send
\* did not fire (Button A was not pressed, so the period had not elapsed):
\* the pass sent the newly selected frame, which is no longer the first of
\* the catalogue.
C13_Witness ==
    /\ pc = "btnC"
    /\ tick.pressed = {"B"}
    /\ sendingEnabled
    /\ ~tick.periodic
    /\ currentFrameIndex = 2
    /\ tick.sends = <<[frame |-> CarFrame(2), ok |-> TRUE]>>
    /\ lastTx.data[3] = CarFrame(2).data[3]

\* C17: a send made by a press of Button B at time t leaves lastTxTime = t,
\* and the periodic send fires in no pass whose time is less than t + 1000.
C17_ManualSendRestartsPeriod ==
    /\ [][ButtonBPressed /\ sendingEnabled
            => lastTxTime' = now /\ tick'.manual = now]_vars
    /\ [][pc = "tx" /\ tick'.periodic
            => tick.manual = 0 \/ now >= tick.manual + TX_PERIOD_MS]_vars

\* A pass that begins less than a period after a send made by Button B,
\* with sending still enabled: its periodic statement has run and has sent
\* nothing.
C17_Witness ==
    /\ pc = "btnA"
    /\ sendingEnabled
    /\ tick.manual > 0
    /\ lastTxTime = tick.manual
    /\ now = tick.manual + TX_PERIOD_MS - LOOP_DELAY_MS
    /\ ~tick.periodic
    /\ tick.sends = <<>>

(***************************************************************************)
(* Properties of the display while the screen is off (checked under        *)
(* SpecPower).                                                             *)
(***************************************************************************)
\* The cached last values the display functions compare against.
DisplayCaches == <<lastBatPercent, lastCharging, lastTxCount, lastRxCount,
                   lastSendingState, lastSDLoggingState>>

\* The step is the refresh statement of loop() reached with the screen on.
RefreshStatementOn == pc = "display" /\ screenOn

\* C21: past setup(), every step but the refresh statement reached with the
\* screen on makes no call of updateDisplay, draws nothing and leaves every cached
\* last value as it is; so while the screen is off the cached values keep
\* their values until the first refresh after it is switched on again.
C21_NoRefreshWhileScreenOff ==
    [][~RefreshStatementOn /\ pc \in LoopPcs
         => (/\ (tick'.refreshed => tick.refreshed)
             /\ tick'.redrawn \subseteq tick.redrawn
             /\ UNCHANGED DisplayCaches)]_vars

\* A pass ends with the screen off, the refresh interval elapsed and a
\* frame sent since the last refresh: no refresh ran and the cached
\* transmit counter is stale.
C21_Witness ==
    /\ pc = "delay"
    /\ ~screenOn
    /\ now - lastDisplayUpdate >= DISPLAY_INTERVAL_MS
    /\ ~tick.refreshed
    /\ txCount > lastTxCount
    /\ displayInitialized

(***************************************************************************)
(* Properties of the rows of the bus log (checked under SpecFormat).       *)
(***************************************************************************)
\* A byte as two upper-case hexadecimal digits.
HexByte(b) == HexDigits[(b \div 16) + 1] \o HexDigits[(b % 16) + 1]

\* Bytes as two-digit hexadecimal numbers separated by single spaces.
RECURSIVE JoinBytes(_)
JoinBytes(bs) ==
    IF bs = <<>> THEN ""
    ELSE IF Len(bs) = 1 THEN HexByte(bs[1])
    ELSE HexByte(bs[1]) \o " " \o JoinBytes(Tail(bs))

\* An identifier as 0x and upper-case hexadecimal digits, at least three.
IdText(id) ==
    "0x" \o (IF id < 16 THEN "00" ELSE IF id < 256 THEN "0" ELSE "")
         \o PrintHex(id)

\* The row timestamp,type,id,length,data of frame f at time t.
RowForm(t, f) ==
    PrintDec(t) \o "," \o f.type \o "," \o IdText(f.id) \o ","
      \o PrintDec(f.len) \o "," \o JoinBytes(SubSeq(f.data, 1, f.len))

\* This step is a call of logCanFrame that wrote to the card and left
\* logging enabled.
LogCanFrameWrote ==
    /\ lastOp'.op = "logCanFrame"
    /\ sd' # sd
    /\ sdLoggingEnabled'

\* The lines the bus log of the step's end held before the row was printed:
\* the file as it was, or the header of the file a rotation has opened.
LinesBefore ==
    IF lastOp'.opens THEN <<CAN_CSV_HEADER>> ELSE sd[logFile.name].lines

\* The lines of the bus log at the end of the step.
LinesAfter == sd'[logFile'.name].lines

\* C22: a call of logCanFrame that goes through appends exactly one row to
\* the bus log, and the text of the row is timestamp,type,id,length,data
\* with type TX or RX, the identifier as 0x and at least three upper-case
\* hexadecimal digits, and the payload bytes as two-digit upper-case
\* hexadecimal numbers separated by single spaces; the transmitted frame
\* 0x7DF at time 1000 gives 1000,TX,0x7DF,8,02 01 0D 55 55 55 55 55.
C22_CanRowFormat ==
    [][LogCanFrameWrote =>
         /\ Len(LinesAfter) = Len(LinesBefore) + 1
         /\ SubSeq(LinesAfter, 1, Len(LinesBefore)) = LinesBefore
         /\ \E f \in FormatFrames :
              /\ LinesAfter[Len(LinesAfter)].text = RowForm(now, f)
              /\ f.type \in {"TX", "RX"}
              /\ (f.type = "TX" /\ now = 1000) =>
                   LinesAfter[Len(LinesAfter)].text =
                     "1000,TX,0x7DF,8,02 01 0D 55 55 55 55 55"
         /\ sd'[imuLogFile'.name].lines =
              (IF lastOp'.opens THEN <<IMU_CSV_HEADER>>
                                ELSE sd[imuLogFile.name].lines)]_vars

\* The bus log holds the row of the transmitted frame written at time 1000
\* and, in the same file, the row of a received frame without payload.
C22_Witness ==
    /\ sdLoggingEnabled
    /\ logFile.open
    /\ LET lines == sd[logFile.name].lines
       IN  /\ Len(lines) = 3
           /\ lines[2].text = "1000,TX,0x7DF,8,02 01 0D 55 55 55 55 55"
           /\ lines[3].text = "1000,RX,0x00A,0,"

(***************************************************************************)
(* Properties of the flush of the bus log (checked under SpecLog).         *)
(***************************************************************************)
\* The rows of the bus log that have not reached the card: the lines past
\* the last flush, the header line apart.
UnflushedRows ==
    IF logFile.open
      THEN {i \in 2..Len(sd[logFile.name].lines) : i > sd[logFile.name].synced}
      ELSE {}

\* C23: while logging is enabled no row of the bus log stays unflushed for
\* more than the flush interval, whether or not further rows are written.
C23_FlushedWithinInterval ==
    sdLoggingEnabled =>
      \A i \in UnflushedRows :
        now - sd[logFile.name].lines[i].ts <= FLUSH_INTERVAL_MS

(***************************************************************************)
(* Order of the receive drain and the periodic send within a pass (checked *)
(* under SpecTx).                                                          *)
(***************************************************************************)
\* The rows of the bus log, the header line apart.
BusLogRows ==
    IF logFile.open THEN 2..Len(sd[logFile.name].lines) ELSE {}

\* Row i of the bus log.
BusLogRow(i) == sd[logFile.name].lines[i]

\* This step sends a frame from the periodic statement.
PeriodicSendStep == pc = "tx" /\ tick'.sends # tick.sends

SendsInStep == Len(tick'.sends) > Len(tick.sends)

\* C25, as stated: while sendingEnabled is false no step sends a frame and
\* no step changes txCount; and the Button A statement, which comes after
\* the periodic statement of its pass, leaves what that pass has sent and
\* counted as it is.
C25_PausedCountUnchanged ==
    /\ [][~sendingEnabled => ~SendsInStep /\ txCount' = txCount]_vars
    /\ [][pc = "btnA" => tick'.sends = tick.sends /\ txCount' = txCount]_vars

\* C25, amended: while sendingEnabled is false no step sends a frame, and
\* txCount and lastTx change only by the counter reset, which sets txCount
\* to 0; and the Button A statement leaves what its pass has sent and
\* counted as it is.
C25_PausedNothingSent ==
    /\ [][~sendingEnabled =>
            /\ ~SendsInStep
            /\ lastTx' = lastTx \/ pc = "init"
            /\ txCount' = txCount \/ (pc = "touch" /\ txCount' = 0)]_vars
    /\ [][pc = "btnA" => tick'.sends = tick.sends /\ txCount' = txCount]_vars

\* Sending was paused after a frame was sent, and a later pass whose
\* period has elapsed is past its periodic statement without a send.
C25_Witness ==
    /\ pc = "btnA"
    /\ ~sendingEnabled
    /\ txCount > 0
    /\ now - lastTxTime >= TX_PERIOD_MS
    /\ tick.sends = <<>>

(***************************************************************************)
(* Properties of the long press (checked under SpecTouch).                 *)
(***************************************************************************)
\* The touch statement of this step sees the screen touched.
TouchedInStep == pc = "touch" /\ "touch" \in tick'.pressed

\* The touch statement of this step runs a long-press action.
LongPressActs ==
    /\ TouchedInStep
    /\ tick'.fired > (IF tick.touchSince = 0 THEN 0 ELSE tick.fired)

\* The touch seen by this step has been held for more than 800 ms.
HeldLong ==
    /\ TouchedInStep
    /\ tick.touchSince # 0
    /\ now - tick.touchSince > LONG_PRESS_MS

\* C26: a long-press action runs only in a pass that sees a touch held for
\* more than 800 ms; a touch released earlier triggers none, whatever
\* touches came before it.
C26_ShortTapTriggersNothing ==
    [][LongPressActs => HeldLong]_vars

\* C27: a touch held for more than 800 ms has run its long-press action
\* exactly once, whatever touches and long presses came before it.
C27_LongPressActsOnce ==
    [][HeldLong => tick'.fired = 1]_vars

(***************************************************************************)
(* Properties of the message list (checked under SpecView).                *)
(***************************************************************************)
\* The k-th row of the list is the frame received k - 1 frames before the
\* latest: its identifier, its length and its payload.
ListsFrame(k) ==
    /\ tick.listed[k].id = rxCount - k + 1
    /\ \A b \in 1..tick.listed[k].len :
         tick.listed[k].data[b] = BusFrame(rxCount - k + 1, 1).data[1]

\* C28: when a pass has redrawn the message list, the list holds the most
\* recent min(4, n) of the n frames received, newest first, whatever their
\* lengths.
C28_ViewListsLatestFour ==
    (pc = "delay" /\ "rxLog" \in tick.redrawn) =>
      /\ Len(tick.listed) = IF rxCount < RX_VIEW_SIZE THEN rxCount
                                                      ELSE RX_VIEW_SIZE
      /\ \A k \in 1..Len(tick.listed) : ListsFrame(k)

(***************************************************************************)
(* Properties of the counter reset (checked under SpecMain).               *)
(***************************************************************************)
\* The touch statement of this step runs the long-press action of the right
\* zone.
CounterResetStep == pc = "touch" /\ "right" \in tick'.pressed

\* C29: the counter reset sets txCount and rxCount to 0, clears the ring
\* buffer and sets rxLogIndex to 0, and leaves sendingEnabled,
\* currentFrameIndex, lastTxTime, debugSerial and the interrupt flag as
\* they are.
C29_CounterResetEffect ==
    [][CounterResetStep =>
         /\ txCount' = 0 /\ rxCount' = 0
         /\ rxLog' = ClearedRxLog /\ rxLogIndex' = 0
         /\ UNCHANGED <<sendingEnabled, currentFrameIndex, lastTxTime,
                        debugSerial, canMsgReceived>>]_vars

\* The counters were reset in a pass that had drained a frame and sent
\* one, with sending enabled and a frame other than the first selected.
C29_Witness ==
    /\ pc = "display"
    /\ "right" \in tick.pressed
    /\ tick.sends # <<>> /\ tick.sends[1].ok
    /\ arrived > 0 /\ canRxQueue = <<>>
    /\ txCount = 0 /\ rxCount = 0 /\ rxLogIndex = 0
    /\ sendingEnabled
    /\ currentFrameIndex # 0
    /\ lastTxTime = now

(***************************************************************************)
(* Properties of nextFrame and prevFrame (checked under SpecIndex).        *)
(***************************************************************************)
\* The index of the last frame of the catalogue.
LastFrameIndex == numCarFrames - 1

\* The index nextFrame and prevFrame leave, called with index i selected.
IndexAfterNext(i) ==
    nextFrame([CatalogueState EXCEPT !.currentFrameIndex = i]).currentFrameIndex

IndexAfterPrev(i) ==
    prevFrame([CatalogueState EXCEPT !.currentFrameIndex = i]).currentFrameIndex

\* The touch statement of this step runs the long-press action of the left
\* zone.
PrevFrameStep == pc = "touch" /\ "left" \in tick'.pressed

\* C30: currentFrameIndex stays in 0..numCarFrames-1 under every sequence
\* of calls of nextFrame and prevFrame; nextFrame goes from the last index
\* to 0 and prevFrame from 0 to the last index; and each of the two undoes
\* the other.
C30_FrameIndexWraps ==
    /\ [](currentFrameIndex \in 0..LastFrameIndex)
    /\ [](/\ IndexAfterPrev(IndexAfterNext(currentFrameIndex)) = currentFrameIndex
          /\ IndexAfterNext(IndexAfterPrev(currentFrameIndex)) = currentFrameIndex
          /\ IndexAfterNext(LastFrameIndex) = 0
          /\ IndexAfterPrev(0) = LastFrameIndex)
    /\ [][ButtonBPressed =>
            currentFrameIndex' = IF currentFrameIndex = LastFrameIndex
                                   THEN 0 ELSE currentFrameIndex + 1]_vars
    /\ [][PrevFrameStep =>
            currentFrameIndex' = IF currentFrameIndex = 0
                                   THEN LastFrameIndex
                                   ELSE currentFrameIndex - 1]_vars

\* The last frame was selected when the display was last refreshed, a long
\* press has acted, and Button B, in this pass, has gone forward from the
\* last frame to the first.
C30_Witness ==
    /\ pc = "btnC"
    /\ "B" \in tick.pressed
    /\ longPressHandled
    /\ lastFrameIndex = LastFrameIndex
    /\ currentFrameIndex = 0

(***************************************************************************)
(* Rotation on a write (checked under SpecLog).                            *)
(***************************************************************************)
\* This step is a call of logCanFrame or logImuData made while logging is
\* on and the recorded size of one of the files is over the threshold.
WriteOverThreshold ==
    /\ now' = now
    /\ lastOp'.op \in {"logCanFrame", "logImuData"}
    /\ sdLoggingEnabled
    /\ \/ logFileSize > MAX_LOG_FILE_SIZE
       \/ imuLogFileSize > MAX_LOG_FILE_SIZE

\* The lines of the new session's files after a rotating call of function
\* op: the header, and after it the row the call had to write.
NewLogLines(op) ==
    IF op = "logCanFrame"
      THEN <<CAN_CSV_HEADER,
             CanRow(now, "TX", CAN_FRAME_ID, CAN_FRAME_LEN, CAN_FRAME_DATA)>>
      ELSE <<CAN_CSV_HEADER>>

NewImuLines(op) ==
    IF op = "logImuData" THEN <<IMU_CSV_HEADER, ImuRow>> ELSE <<IMU_CSV_HEADER>>

\* The files of the session the step closes are left as they were, unless
\* the new session has the same names.
OldFilesKept ==
    \A n \in {logFile.name, imuLogFile.name} :
        n \notin {logFile'.name, imuLogFile'.name} => sd'[n].lines = sd[n].lines

\* C31: a call of logCanFrame or logImuData made while logging is on and
\* the recorded size of either file is over MAX_LOG_FILE_SIZE rotates: both
\* files are closed and opened again under one newly generated session
\* identifier before the row is written; when the rotation succeeds the row
\* is the first one of the new file, after the header, and both recorded
\* sizes count from the new files (the file written to: its size; the other
\* one: 0).
C31_RotationBeforePendingRecord ==
    [][WriteOverThreshold =>
         /\ sessions' = sessions + 1
         /\ ClosedOrReopened(logFile.name)
         /\ ClosedOrReopened(imuLogFile.name)
         /\ OpensSucceeded =>
               /\ BothOpenUnder(currentSessionId)'
               /\ sd'[logFile'.name].lines = NewLogLines(lastOp'.op)
               /\ sd'[imuLogFile'.name].lines = NewImuLines(lastOp'.op)
               /\ OldFilesKept
               /\ logFileSize' =
                    IF lastOp'.op = "logCanFrame"
                      THEN FileSize(sd', logFile') ELSE 0
               /\ imuLogFileSize' =
                    IF lastOp'.op = "logImuData"
                      THEN FileSize(sd', imuLogFile') ELSE 0]_vars

\* logImuData has just rotated because of the size of the bus log, and its
\* row is in the new motion log.
C31_Witness ==
    /\ lastOp.op = "logImuData"
    /\ lastOp.opens /\ lastOp.canOk /\ lastOp.imuOk
    /\ sd[imuLogFile.name].lines = <<IMU_CSV_HEADER, ImuRow>>
    /\ sd[logFile.name].lines = <<CAN_CSV_HEADER>>
    /\ logFileSize = 0
    /\ imuLogFileSize = 2
    /\ \E n \in FileNames : /\ n # logFile.name
                             /\ sd[n].exists
                             /\ Len(sd[n].lines) > MAX_LOG_FILE_SIZE
                             /\ sd[n].lines[1] = CAN_CSV_HEADER

(***************************************************************************)
(* Buttons pressed while the screen is off (checked under SpecPower).      *)
(***************************************************************************)
\* The Button A (Button C) statement of this step sees a press while the
\* screen is off.
ButtonAWhileOff == pc = "btnA" /\ "A" \in tick'.pressed /\ ~screenOn

ButtonCWhileOff == pc = "btnC" /\ "C" \in tick'.pressed /\ ~screenOn

\* C32: a press of Button A or Button C made while the screen is off only
\* wakes the screen: sendingEnabled (Button A) and sdLoggingEnabled
\* (Button C) keep their values.
C32_FirstPressOnlyWakes ==
    /\ [][ButtonAWhileOff =>
            screenOn' /\ sendingEnabled' = sendingEnabled]_vars
    /\ [][ButtonCWhileOff =>
            screenOn' /\ sdLoggingEnabled' = sdLoggingEnabled]_vars

(***************************************************************************)
(* The first send after Button A switches sending on (checked under        *)
(* SpecTx).                                                                *)
(***************************************************************************)
\* Button A switched sending on in the pass before this one, and sending is
\* still on.
EnabledInLastPass == sendingEnabled /\ tick.enabledIn > 0 /\ tick.enabledIn = tick.n - 1

\* C33: when a press of Button A switches sendingEnabled from false to
\* true, a frame is sent at once, no later than in the next pass of loop(),
\* not one full period after the press.
C33_SendAtOnceAfterEnable ==
    [][PeriodicStatement /\ EnabledInLastPass => tick'.sends # <<>>]_vars

(***************************************************************************)
(* The redraw after the screen comes back on (checked under SpecPower).    *)
(***************************************************************************)
\* The screen goes from off to on in this step.
ScreenComesOn == ~screenOn /\ screenOn'

\* updateDisplay runs in this step.
DisplayRefreshed == tick'.refreshed /\ ~tick.refreshed

\* C34: every transition of the screen from off to on clears
\* displayInitialized, and displayInitialized stays false until the next
\* call of updateDisplay, which takes its first-time branch (fillScreen,
\* drawStaticElements, reset of the cached values) before the partial
\* updates.
C34_WakeForcesFullRedraw ==
    /\ [][ScreenComesOn => ~displayInitialized']_vars
    /\ [][~displayInitialized /\ displayInitialized' =>
            DisplayRefreshed /\ tick'.full]_vars
    /\ [][DisplayRefreshed => (tick'.full = ~displayInitialized)]_vars

\* A touch has woken the screen in this pass, and the refresh of the pass
\* took the first-time branch.
C34_Witness ==
    /\ pc = "delay"
    /\ tick.n >= 2
    /\ tick.pressed = {"touch"}
    /\ screenOn
    /\ tick.refreshed /\ tick.full
    /\ displayInitialized

(***************************************************************************)
(* The idle timeout (checked under SpecPower).                             *)
(***************************************************************************)
\* updatePowerSaving runs in this step.
PowerStatement == pc = "power" /\ pc' = "display"

\* C35: when the screen is on and more than TIMEOUT_OFF_MS have passed
\* since the last activity (lastActivityTime: the latest press or touch, or
\* setup; a press or touch in the pass makes it the time of the pass), the
\* pass switches the screen off; and the screen stays off until a
\* statement sees a button press or a touch.
C35_IdleTimeoutSwitchesOff ==
    /\ [][PowerStatement /\ screenOn
            /\ now - lastActivityTime > TIMEOUT_OFF_MS
          => ~screenOn' /\ tick'.offBy = "idle"]_vars
    /\ [][ScreenComesOn => ActivitySeen]_vars

\* Nothing was ever pressed or touched: the idle timeout has switched the
\* screen off in an earlier pass, and the screen is still off at the end of
\* this one.
C35_Witness ==
    /\ pc = "delay"
    /\ tick.activity = 0
    /\ tick.offBy = "none"
    /\ ~screenOn
    /\ now - lastActivityTime > TIMEOUT_OFF_MS

(***************************************************************************)
(* The power state between two passes (checked under SpecPower).           *)
(***************************************************************************)
\* A pass of loop() is about to begin or has just ended.
TickBoundary == pc \in {"loop", "delay"}

\* C36: between two passes of loop() powerSaveMode is the negation of
\* screenOn, and currentBrightness is BRIGHTNESS_DEFAULT when the screen is
\* on and 0 when it is off.
C36_PowerStateConsistent ==
    TickBoundary =>
      /\ powerSaveMode = ~screenOn
      /\ currentBrightness = IF screenOn THEN BRIGHTNESS_DEFAULT ELSE 0

\* Button B has switched the screen off in the second pass or later.
C36_Witness ==
    /\ pc = "delay"
    /\ tick.n >= 2
    /\ tick.offBy = "toggle"
    /\ ~screenOn /\ powerSaveMode
    /\ currentBrightness = 0

(***************************************************************************)
(* The write index of the ring buffer (checked under SpecRing).            *)
(***************************************************************************)
\* C37: after every sequence of calls of receiveCanMessages and of counter
\* resets, the write index of the ring buffer is the RX counter modulo the
\* capacity of the buffer.
C37_IndexFollowsCounter ==
    rxLogIndex = rxCount % RX_LOG_SIZE

\* More frames than the buffer holds had been received and counted on the
\* display (the index had wrapped) when the long press of this pass reset
\* the counters.
C37_Witness ==
    /\ pc = "display"
    /\ tick.fired = 1
    /\ lastRxCount > RX_LOG_SIZE
    /\ rxCount = 0
    /\ rxLogIndex = 0

(***************************************************************************)
(* The play/pause state on the panel (checked under SpecDisplay).          *)
(***************************************************************************)
\* updateDisplay has run in this pass, with the screen on.
RefreshedOn == pc = "delay" /\ tick.refreshed /\ screenOn

\* C38: after every refresh made while the screen is on, the PLAY/PAUSE
\* button and the play indicator of the TX section both show the current
\* value of sendingEnabled.
C38_PanelShowsSendingState ==
    RefreshedOn =>
      /\ tick.lcd.buttonA = PlayText(sendingEnabled)
      /\ tick.lcd.indicator = PlayText(sendingEnabled)

(***************************************************************************)
(* The receive log on the panel (checked under SpecRing).                  *)
(***************************************************************************)
\* updateDisplay has run in this pass.
Refreshed == pc = "delay" /\ tick.refreshed

\* C39: after every refresh the RX counter and the message list on the
\* panel are those of the current rxCount and ring buffer: the list is
\* redrawn whenever the buffer has changed since the last refresh, by
\* received frames, by a counter reset or by both.
C39_PanelShowsReceiveLog ==
    Refreshed =>
      /\ tick.lcd.rxCount = rxCount
      /\ tick.lcd.rxList = rxLogListLoop(CatalogueState, 0, <<>>)

====
